---- MODULE Spec2Model ----
(***************************************************************************)
(* Model of the metadata-resolution cascade of paper-rag-pipeline:         *)
(*   src/src/utils.py               identifier extractors, key generator   *)
(*   src/src/metadata_extractor.py  MetadataExtractor (the orchestrator    *)
(*                                  and its six strategies)                *)
(*   src/scripts/initial_setup.py   the batch indexer's use of the keys    *)
(*                                                                         *)
(* Python strings are modelled as sequences of one-character strings, so   *)
(* that splitting, stripping, filtering and formatting are computed.       *)
(***************************************************************************)
EXTENDS Integers, Sequences, FiniteSets, TLC

VARIABLES
    existing_keys,  \* the caller's set of already-used keys
    returned,       \* keys returned so far in the current batch, in order
    call,           \* the latest generate_bibtex_key call: arguments and result
    PDF2BIB_AVAILABLE,  \* module flag set at import (metadata_extractor.py 16-20)
    self_max_retries,    \* MetadataExtractor.max_retries
    self_retry_delay,    \* MetadataExtractor.retry_delay
    pc,             \* where extract_metadata stands: "idle", a strategy, "done", "raised"
    pdf_readable,   \* whether the file at pdf_path can be opened
    first_pages_text,   \* the argument of the running call (None when absent)
    crossref_doi,            \* the DOI found in the text (line 133)
    crossref_attempt,        \* loop variable of the DOI lookup (line 284)
    trace,          \* the strategies invoked by the running call, in order
    log,            \* the requests and sleeps of the running call, in order
    metadata,       \* the PaperMetadata returned by the call
    store,          \* the papers of the vector store: how many under each key
    handlers,       \* the add-paper requests of the server, one coroutine each
    running         \* the coroutine the event loop is running, or "none"

keyVars == <<existing_keys, returned, call>>

config == <<PDF2BIB_AVAILABLE, self_max_retries, self_retry_delay>>

extractVars == <<pc, pdf_readable, first_pages_text, crossref_doi, crossref_attempt, trace, log, metadata>>

serverVars == <<store, handlers, running>>

vars == <<keyVars, config, extractVars, serverVars>>

(***************************************************************************)
(* Characters and strings                                                  *)
(***************************************************************************)
Lower == <<"a","b","c","d","e","f","g","h","i","j","k","l","m",
           "n","o","p","q","r","s","t","u","v","w","x","y","z">>

Upper == <<"A","B","C","D","E","F","G","H","I","J","K","L","M",
           "N","O","P","Q","R","S","T","U","V","W","X","Y","Z">>

DigitChars == <<"0","1","2","3","4","5","6","7","8","9">>

Range(s) == { s[i] : i \in DOMAIN s }

\* the element of a one-element set: The({ e : x \in {v} }) is e for x = v,
\* with v computed once
The(S) == CHOOSE x \in S : TRUE

Whitespace == {" ", "\t", "\n", "\r"}

IsAlpha(c) == c \in Range(Lower) \cup Range(Upper)

IsDigit(c) == c \in Range(DigitChars)

\* \w of Python's re module (ASCII part)
IsWord(c) == IsAlpha(c) \/ IsDigit(c) \/ c = "_"

DigitValue(c) == (CHOOSE i \in DOMAIN DigitChars : DigitChars[i] = c) - 1

\* str(n) / f"{n}" for an integer n
RECURSIVE NatToStr(_)
NatToStr(n) ==
    IF n < 10 THEN <<DigitChars[n + 1]>>
    ELSE NatToStr(n \div 10) \o <<DigitChars[(n % 10) + 1]>>

IntToStr(n) == IF n < 0 THEN <<"-">> \o NatToStr(0 - n) ELSE NatToStr(n)

\* str.strip(): leading and trailing whitespace removed
RECURSIVE LStrip(_)
LStrip(s) ==
    IF s # <<>> /\ Head(s) \in Whitespace THEN LStrip(Tail(s)) ELSE s

RECURSIVE RStrip(_)
RStrip(s) ==
    IF s # <<>> /\ s[Len(s)] \in Whitespace
    THEN RStrip(SubSeq(s, 1, Len(s) - 1)) ELSE s

Strip(s) == RStrip(LStrip(s))

\* s.split(',')[0]: the part before the first comma (all of s without one)
RECURSIVE BeforeFirst(_, _)
BeforeFirst(s, c) ==
    IF s = <<>> \/ Head(s) = c THEN <<>>
    ELSE <<Head(s)>> \o BeforeFirst(Tail(s), c)

\* s.split()[-1]: the last whitespace-delimited token, <<>> when s.split() = []
RECURSIVE TrailingToken(_)
TrailingToken(t) ==
    IF t = <<>> \/ t[Len(t)] \in Whitespace THEN <<>>
    ELSE TrailingToken(SubSeq(t, 1, Len(t) - 1)) \o <<t[Len(t)]>>

LastToken(s) == TrailingToken(RStrip(s))

\* re.sub(r'[^a-zA-Z]', '', s)
RECURSIVE OnlyAlpha(_)
OnlyAlpha(s) ==
    IF s = <<>> THEN <<>>
    ELSE (IF IsAlpha(Head(s)) THEN <<Head(s)>> ELSE <<>>) \o OnlyAlpha(Tail(s))

(***************************************************************************)
(* generate_bibtex_key (src/src/utils.py)                                  *)
(***************************************************************************)
OrdA == 97
OrdZ == 122

Chr(n) == Lower[n - OrdA + 1]

UnknownStr == <<"U","n","k","n","o","w","n">>

\* the base key with the part after the comma taken as the surname
BaseKey_after_comma(authors, year) ==
    IF authors = <<>> THEN UnknownStr \o IntToStr(year)
    ELSE IF "," \in Range(authors[1])
         THEN OnlyAlpha(LastToken(authors[1])) \o IntToStr(year)
         ELSE IF LastToken(authors[1]) # <<>>
              THEN OnlyAlpha(LastToken(authors[1])) \o IntToStr(year)
              ELSE UnknownStr \o IntToStr(year)

\* the base key with the whole first author taken as the surname when it has
\* no comma
BaseKey_whole_name(authors, year) ==
    IF authors = <<>> THEN UnknownStr \o IntToStr(year)
    ELSE IF "," \in Range(authors[1])
         THEN OnlyAlpha(Strip(BeforeFirst(authors[1], ","))) \o IntToStr(year)
         ELSE OnlyAlpha(authors[1]) \o IntToStr(year)

\* lines 195-209: the base key
BaseKey(authors, year) ==
    IF authors = <<>> THEN UnknownStr \o IntToStr(year)
    ELSE LET first_author == authors[1]
             last_name ==
                 IF "," \in Range(first_author)
                 THEN Strip(BeforeFirst(first_author, ","))
                 ELSE LET last == LastToken(first_author)
                      IN IF last # <<>> THEN last ELSE UnknownStr
         IN OnlyAlpha(last_name) \o IntToStr(year)

\* the collision loop with a fallback that counts the new key as well
RECURSIVE CollisionLoop_counts_itself(_, _, _, _)
CollisionLoop_counts_itself(base_key, key, suffix, ekeys) ==
    IF key \notin ekeys THEN key
    ELSE LET key2 == base_key \o <<Chr(suffix)>>
             suffix2 == suffix + 1
         IN IF suffix2 > OrdZ
            THEN base_key \o <<"_">> \o IntToStr(Cardinality(ekeys) + 1)
            ELSE CollisionLoop_counts_itself(base_key, key2, suffix2, ekeys)

\* lines 212-220: the collision loop, one unfolding per iteration;
\* (key, suffix) are the loop's variables at the loop test
RECURSIVE CollisionLoop(_, _, _, _)
CollisionLoop(base_key, key, suffix, ekeys) ==
    IF key \notin ekeys THEN key
    ELSE LET key2 == base_key \o <<Chr(suffix)>>
             suffix2 == suffix + 1
         IN IF suffix2 > OrdZ
            THEN base_key \o <<"_">> \o IntToStr(Cardinality(ekeys))
            ELSE CollisionLoop(base_key, key2, suffix2, ekeys)

\* a collision loop that also tests base+'z' before it falls back
RECURSIVE CollisionTests_also_z(_, _, _, _)
CollisionTests_also_z(base_key, key, suffix, ekeys) ==
    IF key \notin ekeys THEN 1
    ELSE IF suffix > OrdZ THEN 1
    ELSE 1 + CollisionTests_also_z(base_key, base_key \o <<Chr(suffix)>>, suffix + 1, ekeys)

\* lines 214-220: the number of times `key in existing_keys` (line 214) is
\* evaluated; after the break of line 220 the test is not evaluated again
RECURSIVE CollisionTests(_, _, _, _)
CollisionTests(base_key, key, suffix, ekeys) ==
    IF key \notin ekeys THEN 1
    ELSE IF suffix + 1 > OrdZ THEN 1
    ELSE 1 + CollisionTests(base_key, base_key \o <<Chr(suffix)>>, suffix + 1, ekeys)

generate_bibtex_key(authors, year, ekeys) ==
    LET base_key == BaseKey(authors, year)
    IN CollisionLoop(base_key, base_key, OrdA, ekeys)

\* a key generator that inserts the key it returns into the set it was given
existing_keys_after_adds_key(authors, year, ekeys) ==
    ekeys \cup {generate_bibtex_key(authors, year, ekeys)}

\* a key generator that empties the set it was given
existing_keys_after_cleared(authors, year, ekeys) == {}

\* lines 183-222: the content of the set argument when the function returns;
\* the body only tests membership (line 214) and takes len() (line 219)
existing_keys_after(authors, year, ekeys) == ekeys

(***************************************************************************)
(* Identifier extractors (src/src/utils.py, lines 92-180) and the regular  *)
(* expressions they use.  A match is reported as [from, to], the indexes   *)
(* of its first and last character; NoMatch when there is none.            *)
(***************************************************************************)
NoMatch == [from |-> 0, to |-> 0]

\* Python's None where a string is expected (no text holds this element)
None == <<"<None>">>

\* re.IGNORECASE comparison of one character
LowerOf(c) ==
    IF c \in Range(Upper)
    THEN Lower[CHOOSE i \in DOMAIN Upper : Upper[i] = c]
    ELSE c

\* the literal lit occurs in t at index i (ignoring case when ci)
LiteralAt(t, i, lit, ci) ==
    /\ i >= 1
    /\ i + Len(lit) - 1 <= Len(t)
    /\ \A k \in 1..Len(lit) :
          IF ci THEN LowerOf(t[i + k - 1]) = LowerOf(lit[k])
          ELSE t[i + k - 1] = lit[k]

\* index of the last character of the longest run of characters from index i
\* on that are all in (or, with inSet FALSE, all outside) the set cs;
\* i - 1 when the run is empty
RECURSIVE RunEnd(_, _, _, _)
RunEnd(t, i, cs, inSet) ==
    IF i >= 1 /\ i <= Len(t) /\ ((t[i] \in cs) = inSet)
    THEN RunEnd(t, i + 1, cs, inSet)
    ELSE i - 1

\* \s*  from index i: the index of the first character after the run
SkipSpaces(t, i) == RunEnd(t, i, Whitespace, TRUE) + 1

\* 10\.\d{4,}/[^\s]+  matched at index i: index of its last character, else 0
DoiCoreAt(t, i) ==
    IF ~LiteralAt(t, i, <<"1", "0", ".">>, TRUE) THEN 0
    ELSE LET d == RunEnd(t, i + 3, Range(DigitChars), TRUE)
             e == RunEnd(t, d + 2, Whitespace, FALSE)
         IN IF /\ d - (i + 3) + 1 >= 4
               /\ d + 1 <= Len(t)
               /\ t[d + 1] = "/"
               /\ e >= d + 2
            THEN e ELSE 0

\* doi:\s*10\.\d{4,}/[^\s]+  matched at index i (re.IGNORECASE)
DoiPrefixedAt(t, i) ==
    IF ~LiteralAt(t, i, <<"d", "o", "i", ":">>, TRUE) THEN 0
    ELSE DoiCoreAt(t, SkipSpaces(t, i + 4))

\* re.search: the leftmost index at which the pattern matches
\* (matchAt[i]: where the match that starts at index i ends, 0 for none)
Search(t, matchAt) ==
    LET from[i \in 1..(Len(t) + 1)] ==
            IF i > Len(t) THEN NoMatch
            ELSE IF matchAt[i] # 0 THEN [from |-> i, to |-> matchAt[i]]
            ELSE from[i + 1]
    IN from[1]

\* re.sub(r'^(doi|DOI):\s*', '', doi): case-sensitive prefix removal
StripDoiPrefix(doi) ==
    IF \/ LiteralAt(doi, 1, <<"d", "o", "i", ":">>, FALSE)
       \/ LiteralAt(doi, 1, <<"D", "O", "I", ":">>, FALSE)
    THEN SubSeq(doi, SkipSpaces(doi, 5), Len(doi))
    ELSE doi

\* rstrip that removes one trailing punctuation character only
RStripPunct_once(s) ==
    IF s # <<>> /\ s[Len(s)] \in {".", ",", ";", ":"}
    THEN SubSeq(s, 1, Len(s) - 1) ELSE s

\* doi.rstrip('.,;:')
RECURSIVE RStripPunct(_)
RStripPunct(s) ==
    IF s # <<>> /\ s[Len(s)] \in {".", ",", ";", ":"}
    THEN RStripPunct(SubSeq(s, 1, Len(s) - 1)) ELSE s

\* lines 108-124: the three patterns are tried in order, the first that
\* matches anywhere in the text decides
extract_doi_from_text(text) ==
    LET m1 == Search(text, [i \in 1..Len(text) |-> DoiCoreAt(text, i)])
        m2 == Search(text, [i \in 1..Len(text) |-> DoiPrefixedAt(text, i)])
        m  == IF m1 # NoMatch THEN m1 ELSE m2  \* patterns 2 and 3 coincide under IGNORECASE
    IN IF m = NoMatch THEN None
       ELSE RStripPunct(StripDoiPrefix(SubSeq(text, m.from, m.to)))

\* \d{4}\.\d{4,5}  matched at index i: index of its last character, else 0
ArxivNumberAt(t, i) ==
    LET d1 == RunEnd(t, i, Range(DigitChars), TRUE)
        d2 == RunEnd(t, i + 5, Range(DigitChars), TRUE)
    IN IF /\ i >= 1
          /\ d1 >= i + 3          \* four digits,
          /\ i + 4 <= Len(t)
          /\ t[i + 4] = "."       \* the dot right after them,
          /\ d2 >= i + 8          \* then four or five digits, five if present
       THEN (IF d2 >= i + 9 THEN i + 9 ELSE i + 8)
       ELSE 0

Str_arxiv_colon == <<"a","r","X","i","v",":">>
Str_arxiv_url == <<"a","r","x","i","v",".","o","r","g","/","a","b","s","/">>

\* arXiv:\s*(\d{4}\.\d{4,5})  at index i: [from, to] of group 1
ArxivColonGroup(t, i) ==
    IF ~LiteralAt(t, i, Str_arxiv_colon, TRUE) THEN NoMatch
    ELSE LET g == SkipSpaces(t, i + Len(Str_arxiv_colon))
         IN IF ArxivNumberAt(t, g) # 0
            THEN [from |-> g, to |-> ArxivNumberAt(t, g)] ELSE NoMatch

\* arxiv\.org/abs/(\d{4}\.\d{4,5})  at index i: [from, to] of group 1
ArxivUrlGroup(t, i) ==
    IF ~LiteralAt(t, i, Str_arxiv_url, TRUE) THEN NoMatch
    ELSE LET g == i + Len(Str_arxiv_url)
         IN IF ArxivNumberAt(t, g) # 0
            THEN [from |-> g, to |-> ArxivNumberAt(t, g)] ELSE NoMatch

\* re.search(...).group(1): group 1 of the leftmost match
\* (groupAt[i]: group 1 of the match that starts at index i, NoMatch for none)
SearchGroup(t, groupAt) ==
    LET from[i \in 1..(Len(t) + 1)] ==
            IF i > Len(t) THEN None
            ELSE IF groupAt[i] # NoMatch
                 THEN SubSeq(t, groupAt[i].from, groupAt[i].to)
            ELSE from[i + 1]
    IN from[1]

\* lines 142-152
extract_arxiv_id_from_text(text) ==
    IF SearchGroup(text, [i \in 1..Len(text) |-> ArxivColonGroup(text, i)]) # None
    THEN SearchGroup(text, [i \in 1..Len(text) |-> ArxivColonGroup(text, i)])
    ELSE SearchGroup(text, [i \in 1..Len(text) |-> ArxivUrlGroup(text, i)])

Str_pmid_colon == <<"P","M","I","D",":">>
Str_pubmed_url == <<"p","u","b","m","e","d",".","n","c","b","i",".","n","l","m",
                    ".","n","i","h",".","g","o","v","/">>

\* \d{7,8} at index i: [from, to], eight digits when present
PmidNumberAt(t, i) ==
    LET d == RunEnd(t, i, Range(DigitChars), TRUE)
    IN IF i >= 1 /\ d >= i + 6
       THEN [from |-> i, to |-> IF d >= i + 7 THEN i + 7 ELSE i + 6]
       ELSE NoMatch

\* PMID:\s*(\d{7,8})
PmidColonGroup(t, i) ==
    IF ~LiteralAt(t, i, Str_pmid_colon, TRUE) THEN NoMatch
    ELSE PmidNumberAt(t, SkipSpaces(t, i + Len(Str_pmid_colon)))

\* pubmed\.ncbi\.nlm\.nih\.gov/(\d{7,8})
PmidUrlGroup(t, i) ==
    IF ~LiteralAt(t, i, Str_pubmed_url, TRUE) THEN NoMatch
    ELSE PmidNumberAt(t, i + Len(Str_pubmed_url))

\* lines 170-180
extract_pubmed_id_from_text(text) ==
    IF SearchGroup(text, [i \in 1..Len(text) |-> PmidColonGroup(text, i)]) # None
    THEN SearchGroup(text, [i \in 1..Len(text) |-> PmidColonGroup(text, i)])
    ELSE SearchGroup(text, [i \in 1..Len(text) |-> PmidUrlGroup(text, i)])

(***************************************************************************)
(* Citation normalizer: _parse_bibtex_entry (metadata_extractor.py lines   *)
(* 529-562).  The entry syntax read by parse_bibtex (line 532) is modelled *)
(* for single entries  @type{key, name = {value}, name = 1999, ...}  with  *)
(* either delimiter pair, optional white space between the tokens, and     *)
(* brace-free values.                                                      *)
(***************************************************************************)
SyntaxError == [ok |-> FALSE, empty |-> FALSE, key |-> <<>>, fields |-> <<>>]

NoEntries == [ok |-> FALSE, empty |-> TRUE, key |-> <<>>, fields |-> <<>>]

\* index of the first occurrence of character c in t at or after i; 0 if none
RECURSIVE IndexFrom(_, _, _)
IndexFrom(t, i, c) ==
    IF i > Len(t) THEN 0
    ELSE IF t[i] = c THEN i
    ELSE IndexFrom(t, i + 1, c)

\* the fields  name = value  up to the closing delimiter; i is the index after
\* the comma that follows the key or the previous field
RECURSIVE ParseFields(_, _, _, _, _)
ParseFields(t, i, close, key, acc) ==
    LET n1 == SkipSpaces(t, i)
        n2 == RunEnd(t, n1, Range(Lower) \cup Range(Upper), TRUE)
        e  == SkipSpaces(t, n2 + 1)
        v1 == SkipSpaces(t, e + 1)
        braced == v1 <= Len(t) /\ t[v1] = "{"
        v2 == IF braced THEN IndexFrom(t, v1 + 1, "}")
              ELSE RunEnd(t, v1, Range(DigitChars), TRUE)
        value == IF braced THEN SubSeq(t, v1 + 1, v2 - 1) ELSE SubSeq(t, v1, v2)
        nx == SkipSpaces(t, v2 + 1)
        acc2 == Append(acc, [name |-> SubSeq(t, n1, n2), value |-> value])
    IN IF n1 > Len(t) THEN SyntaxError
       ELSE IF t[n1] = close THEN [ok |-> TRUE, empty |-> FALSE, key |-> key, fields |-> acc]
       ELSE IF n2 < n1 \/ e > Len(t) \/ t[e] # "=" \/ v1 > Len(t) THEN SyntaxError
       ELSE IF braced /\ (v2 = 0 \/ "{" \in Range(value)) THEN SyntaxError
       ELSE IF ~braced /\ v2 < v1 THEN SyntaxError
       ELSE IF nx > Len(t) THEN SyntaxError
       ELSE IF t[nx] = "," THEN ParseFields(t, nx + 1, close, key, acc2)
       ELSE IF t[nx] = close THEN [ok |-> TRUE, empty |-> FALSE, key |-> key, fields |-> acc2]
       ELSE SyntaxError

\* parse_bibtex(bibtex_str, 'bibtex'): the first entry of the text
parse_bibtex(t) ==
    LET at == IndexFrom(t, 1, "@")
        ty == RunEnd(t, at + 1, Range(Lower) \cup Range(Upper), TRUE)
        op == SkipSpaces(t, ty + 1)
        close == IF t[op] = "{" THEN "}" ELSE ")"
        k1 == SkipSpaces(t, op + 1)
        k2 == RunEnd(t, k1, Whitespace \cup {","} \cup (IF close = "}" THEN {"}"} ELSE {}), FALSE)
        nx == SkipSpaces(t, k2 + 1)
        key == SubSeq(t, k1, k2)
    IN IF at = 0 THEN NoEntries
       ELSE IF ty < at + 1 \/ op > Len(t) THEN SyntaxError
       ELSE IF t[op] \notin {"{", "("} THEN SyntaxError
       ELSE IF k2 < k1 \/ nx > Len(t) THEN SyntaxError
       ELSE IF t[nx] = close THEN [ok |-> TRUE, empty |-> FALSE, key |-> key, fields |-> <<>>]
       ELSE IF t[nx] = "," THEN ParseFields(t, nx + 1, close, key, <<>>)
       ELSE SyntaxError

Str_author == <<"a","u","t","h","o","r">>
Str_title == <<"t","i","t","l","e">>
Str_year == <<"y","e","a","r">>
Str_journal == <<"j","o","u","r","n","a","l">>
Str_volume == <<"v","o","l","u","m","e">>
Str_pages == <<"p","a","g","e","s">>
Str_publisher == <<"p","u","b","l","i","s","h","e","r">>
Str_doi == <<"d","o","i">>

RECURSIVE ToLower(_)
ToLower(s) == IF s = <<>> THEN <<>> ELSE <<LowerOf(Head(s))>> \o ToLower(Tail(s))

HasField(fields, name) == \E i \in DOMAIN fields : ToLower(fields[i].name) = name

\* fields.get with the empty string for a missing field
FieldGet_empty_for_missing(fields, name, default) ==
    IF HasField(fields, name)
    THEN fields[CHOOSE i \in DOMAIN fields : ToLower(fields[i].name) = name].value
    ELSE <<>>

\* fields.get(name, default)
FieldGet(fields, name, default) ==
    IF HasField(fields, name)
    THEN fields[CHOOSE i \in DOMAIN fields : ToLower(fields[i].name) = name].value
    ELSE default

\* " and " at index i: the index of its last character, else 0
AndAt(t, i) == IF LiteralAt(t, i, <<" ","a","n","d"," ">>, FALSE) THEN i + 4 ELSE 0

\* the names of an author field, separated by " and "
RECURSIVE SplitAnd(_)
SplitAnd(s) ==
    LET i == Search(s, [k \in 1..Len(s) |-> AndAt(s, k)]).from
    IN IF i = 0 THEN <<s>>
       ELSE <<SubSeq(s, 1, i - 1)>> \o SplitAnd(SubSeq(s, i + 5, Len(s)))

\* str(person): "Last, First" for both "First Last" and "Last, First"
PersonStr(name) ==
    LET n == Strip(name)
        comma == IndexFrom(n, 1, ",")
        last == IF comma # 0 THEN Strip(SubSeq(n, 1, comma - 1)) ELSE LastToken(n)
        first == IF comma # 0 THEN Strip(SubSeq(n, comma + 1, Len(n)))
                 ELSE Strip(SubSeq(n, 1, Len(n) - Len(last)))
    IN IF first = <<>> THEN last
       ELSE IF last = <<>> THEN first
       ELSE last \o <<",", " ">> \o first

RECURSIVE MapPersons(_)
MapPersons(names) ==
    IF names = <<>> THEN <<>>
    ELSE <<PersonStr(Head(names))>> \o MapPersons(Tail(names))

RECURSIVE DigitsValue(_, _)
DigitsValue(s, acc) ==
    IF s = <<>> THEN acc ELSE DigitsValue(Tail(s), 10 * acc + DigitValue(Head(s)))

\* int(s): ValueError reported as [ok |-> FALSE]
ParseInt(s) ==
    LET t == Strip(s)
        signed == t # <<>> /\ Head(t) \in {"-", "+"}
        digits == IF signed THEN Tail(t) ELSE t
    IN IF digits = <<>> \/ \E i \in DOMAIN digits : ~IsDigit(digits[i])
       THEN [ok |-> FALSE, value |-> 0]
       ELSE [ok |-> TRUE,
             value |-> IF signed /\ Head(t) = "-" THEN 0 - DigitsValue(digits, 0)
                       ELSE DigitsValue(digits, 0)]

DefaultYear == 2024

NoParsed == [ok |-> FALSE]

\* lines 531-562; NoParsed stands for the None of lines 534 and 562
\* NOTE source: a year field that int() rejects raises ValueError inside the
\* try block and ends in 'return None' (line 560-562)
_parse_bibtex_entry(bibtex_str) ==
    The({  LET fields == SelectSeq(bib_data.fields, LAMBDA f : ToLower(f.name) # Str_author)
                authors == IF HasField(bib_data.fields, Str_author)
                           THEN MapPersons(SplitAnd(FieldGet(bib_data.fields, Str_author, <<>>)))
                           ELSE <<>>
                year == IF HasField(fields, Str_year)
                        THEN ParseInt(FieldGet(fields, Str_year, <<>>))
                        ELSE [ok |-> TRUE, value |-> DefaultYear]
            IN IF ~bib_data.ok THEN NoParsed
               ELSE IF ~year.ok THEN NoParsed
               ELSE [ok |-> TRUE,
                     title |-> FieldGet(fields, Str_title, <<>>),
                     authors |-> authors,
                     year |-> year.value,
                     journal |-> FieldGet(fields, Str_journal, None),
                     volume |-> FieldGet(fields, Str_volume, None),
                     pages |-> FieldGet(fields, Str_pages, None),
                     publisher |-> FieldGet(fields, Str_publisher, None),
                     doi |-> FieldGet(fields, Str_doi, None)]
         : bib_data \in {parse_bibtex(bibtex_str)} })

\* _replace_bibtex_key (lines 593-599):
\* re.sub(r'(@\w+\{)[^,]+,', r'\g<1>' + new_key + ',', bibtex_entry, count=1).
\* KeyPatternAt gives the index of the comma ending the match at i, else 0
KeyPatternAt(t, i) ==
    IF t[i] # "@" THEN 0
    ELSE LET w == RunEnd(t, i + 1, Range(Lower) \cup Range(Upper) \cup Range(DigitChars) \cup {"_"}, TRUE)
             c == IndexFrom(t, w + 2, ",")
         IN IF w >= i + 1 /\ w + 1 <= Len(t) /\ t[w + 1] = "{" /\ c >= w + 3
            THEN c ELSE 0

_replace_bibtex_key(bibtex_entry, new_key) ==
    LET m == Search(bibtex_entry, [i \in 1..Len(bibtex_entry) |-> KeyPatternAt(bibtex_entry, i)])
        brace == IndexFrom(bibtex_entry, m.from, "{")
    IN IF m = NoMatch THEN bibtex_entry
       ELSE SubSeq(bibtex_entry, 1, brace) \o new_key
            \o SubSeq(bibtex_entry, m.to, Len(bibtex_entry))

\* " and ".join(authors)
RECURSIVE JoinAnd(_)
JoinAnd(authors) ==
    IF authors = <<>> THEN <<>>
    ELSE IF Len(authors) = 1 THEN authors[1]
    ELSE authors[1] \o <<" ","a","n","d"," ">> \o JoinAnd(Tail(authors))

\* one line "  field = {value},"
FieldLine(name, value) ==
    <<" ", " ">> \o name \o <<" ", "=", " ", "{">> \o value \o <<"}", ",">>

Str_article == <<"a","r","t","i","c","l","e">>
Str_Untitled == <<"U","n","t","i","t","l","e","d">>
Str_url == <<"u","r","l">>

\* _create_bibtex_entry (lines 564-591); journal and url are the keyword
\* arguments the callers pass (None when not passed, skipped when empty)
_create_bibtex_entry(entry_type, key, title, authors, year, journal, url) ==
    LET author_str == IF authors # <<>> THEN JoinAnd(authors) ELSE UnknownStr
        nl == <<"\n">>
    IN <<"@">> \o entry_type \o <<"{">> \o key \o <<",">> \o nl
       \o FieldLine(Str_title, IF title # <<>> THEN title ELSE Str_Untitled) \o nl
       \o FieldLine(Str_author, IF author_str # <<>> THEN author_str ELSE UnknownStr) \o nl
       \o FieldLine(Str_year, IntToStr(year))
       \o (IF journal # None /\ journal # <<>> THEN nl \o FieldLine(Str_journal, journal) ELSE <<>>)
       \o (IF url # None /\ url # <<>> THEN nl \o FieldLine(Str_url, url) ELSE <<>>)
       \o nl \o <<"}">>

(***************************************************************************)
(* PaperMetadata and the six strategies of MetadataExtractor               *)
(* (src/src/metadata_extractor.py).  A strategy yields                     *)
(*   [kind |-> "record", metadata |-> ...]   a PaperMetadata               *)
(*   [kind |-> "none"]                       None: try the next strategy   *)
(*   [kind |-> "raise"]                      an exception leaves it        *)
(***************************************************************************)
ExtractionMethod == {"pdf2bib", "crossref", "arxiv", "pubmed", "pdf_metadata", "parsed", "manual"}

NoRecord == [kind |-> "none"]

Raised == [kind |-> "raise"]

\* the PaperMetadata constructor; the dataclass defaults are None
PaperMetadata(title, authors, year, bibtex_key, bibtex_entry, journal, volume, pages, doi, url, abstract, publisher, extraction_method) ==
    [kind |-> "record",
     metadata |-> [title |-> title, authors |-> authors, year |-> year,
                   bibtex_key |-> bibtex_key, bibtex_entry |-> bibtex_entry,
                   journal |-> journal, volume |-> volume, pages |-> pages,
                   doi |-> doi, url |-> url, abstract |-> abstract,
                   publisher |-> publisher,
                   extraction_method |-> extraction_method]]

Str_doi_org == <<"h","t","t","p","s",":","/","/","d","o","i",".","o","r","g","/">>
Str_arxiv_abs == <<"h","t","t","p","s",":","/","/","a","r","x","i","v",".","o","r","g","/","a","b","s","/">>
Str_arXiv_preprint == <<"a","r","X","i","v"," ","p","r","e","p","r","i","n","t">>

\* Python truthiness of an optional string
Truthy(s) == s # None /\ s # <<>>

\* the direct-PDF strategy without its try/except: an exception of the
\* utility leaves the strategy
_get_metadata_from_pdf2bib_unguarded(util, ekeys) ==
    IF util.raises \/ util.shape = "bypath_bad" THEN Raised
    ELSE IF util.shape \in {"nondict", "other"} THEN NoRecord
    ELSE IF ~Truthy(util.identifier) \/ ~Truthy(util.bibtex) THEN NoRecord
    ELSE The({ IF ~parsed.ok THEN NoRecord
               ELSE PaperMetadata(parsed.title, parsed.authors, parsed.year,
                                  generate_bibtex_key(parsed.authors, parsed.year, ekeys),
                                  util.bibtex, parsed.journal, parsed.volume,
                                  parsed.pages, parsed.doi, util.url, None,
                                  parsed.publisher, "pdf2bib")
               : parsed \in {_parse_bibtex_entry(util.bibtex)} })

\* lines 185-265.  util is what pdf2bib.pdf2bib(...) does: it raises, or it
\* returns a payload of one of the shapes
\*   "nondict"     not a dict
\*   "other"       a dict with neither 'identifier' nor the path as key
\*   "direct"      a dict with the key 'identifier'
\*   "bypath"      a dict keyed by the path, whose value is a dict
\*   "bypath_bad"  a dict keyed by the path, whose value is not a dict
_get_metadata_from_pdf2bib(util, ekeys) ==
    IF util.raises THEN NoRecord                              \* line 263-265
    ELSE IF util.shape \in {"nondict", "other"} THEN NoRecord  \* line 199-204
    ELSE IF util.shape = "bypath_bad" THEN NoRecord           \* .get raises: line 263
    ELSE IF ~Truthy(util.identifier) THEN NoRecord            \* line 208-210
    ELSE IF ~Truthy(util.bibtex) THEN NoRecord                \* line 217-219
    ELSE The({                                                 \* line 222 on
                 IF ~parsed.ok THEN NoRecord                   \* line 223-225
                 ELSE LET bibtex_key == generate_bibtex_key(parsed.authors, parsed.year, ekeys)
                          bibtex_entry == _replace_bibtex_key(util.bibtex, bibtex_key)
                          doi == IF Truthy(parsed.doi) THEN parsed.doi
                                 ELSE IF util.identifier_type = "doi" THEN util.identifier
                                 ELSE None
                          url_link == IF Truthy(doi) THEN Str_doi_org \o doi
                                      ELSE IF util.identifier_type = "arxiv"
                                           THEN Str_arxiv_abs \o util.identifier
                                      ELSE util.url
                      IN PaperMetadata(parsed.title, parsed.authors, parsed.year,
                                       bibtex_key, bibtex_entry, parsed.journal,
                                       parsed.volume, parsed.pages, doi, url_link,
                                       None, parsed.publisher, "pdf2bib")
             : parsed \in {_parse_bibtex_entry(util.bibtex)} })

\* lines 288-321: the handling of a response with status 200
CrossrefOn200(doi, text, ekeys) ==
    The({   IF ~parsed.ok THEN NoRecord
            ELSE LET bibtex_key == generate_bibtex_key(parsed.authors, parsed.year, ekeys)
                     bibtex_entry == _replace_bibtex_key(text, bibtex_key)
                 IN PaperMetadata(parsed.title, parsed.authors, parsed.year,
                                  bibtex_key, bibtex_entry, parsed.journal,
                                  parsed.volume, parsed.pages, doi,
                                  Str_doi_org \o doi, None, parsed.publisher,
                                  "crossref")
         : parsed \in {_parse_bibtex_entry(text)} })

\* CrossrefIteration sleeping for the base delay before every retry
CrossrefIteration_constant_delay(doi, resp, attempt, max_retries, retry_delay, ekeys) ==
    IF resp.kind \in {"timeout", "connection_error"}
    THEN [end |-> "continue", result |-> NoRecord,
          sleep |-> IF attempt < max_retries - 1 THEN retry_delay ELSE 0]
    ELSE IF resp.status = 200
    THEN The({ IF r.kind = "record"
               THEN [end |-> "return", result |-> r, sleep |-> 0]
               ELSE [end |-> "continue", result |-> NoRecord, sleep |-> 0]
               : r \in {CrossrefOn200(doi, resp.text, ekeys)} })
    ELSE IF resp.status = 404
    THEN [end |-> "return", result |-> NoRecord, sleep |-> 0]
    ELSE [end |-> "continue", result |-> NoRecord, sleep |-> 0]

\* CrossrefIteration with 404 handled like any other status: the loop goes on
\* to the next attempt
CrossrefIteration_retries_404(doi, resp, attempt, max_retries, retry_delay, ekeys) ==
    IF resp.kind \in {"timeout", "connection_error"}
    THEN [end |-> "continue", result |-> NoRecord,
          sleep |-> IF attempt < max_retries - 1
                    THEN retry_delay * (2 ^ attempt) ELSE 0]
    ELSE IF resp.status = 200
    THEN The({ IF r.kind = "record"
               THEN [end |-> "return", result |-> r, sleep |-> 0]
               ELSE [end |-> "continue", result |-> NoRecord, sleep |-> 0]
               : r \in {CrossrefOn200(doi, resp.text, ekeys)} })
    ELSE [end |-> "continue", result |-> NoRecord, sleep |-> 0]

\* CrossrefIteration with every status other than 200 taken as definitive: the
\* lookup gives up at the first one instead of going on to the next attempt
CrossrefIteration_status_definitive(doi, resp, attempt, max_retries, retry_delay, ekeys) ==
    IF resp.kind \in {"timeout", "connection_error"}
    THEN [end |-> "continue", result |-> NoRecord,
          sleep |-> IF attempt < max_retries - 1
                    THEN retry_delay * (2 ^ attempt) ELSE 0]
    ELSE IF resp.status = 200
    THEN The({ IF r.kind = "record"
               THEN [end |-> "return", result |-> r, sleep |-> 0]
               ELSE [end |-> "continue", result |-> NoRecord, sleep |-> 0]
               : r \in {CrossrefOn200(doi, resp.text, ekeys)} })
    ELSE [end |-> "return", result |-> NoRecord, sleep |-> 0]

\* One iteration of the loop of lines 284-333, for what session.get does
\* (resp.kind "timeout" / "connection_error": it raises a RequestException;
\* "status": it returns a response).  The iteration ends in
\*   "return"    a PaperMetadata or None is returned (result)
\*   "continue"  the loop goes on to the next attempt, after sleeping for
\*               sleep time units when sleep > 0
\*   "raise"     an exception leaves _get_metadata_from_crossref
CrossrefIteration(doi, resp, attempt, max_retries, retry_delay, ekeys) ==
    IF resp.kind \in {"timeout", "connection_error"}
    THEN [end |-> "continue", result |-> NoRecord,                \* line 330-333
          sleep |-> IF attempt < max_retries - 1
                    THEN retry_delay * (2 ^ attempt) ELSE 0]
    ELSE IF resp.status = 200
    THEN The({ IF r.kind = "record"
               THEN [end |-> "return", result |-> r, sleep |-> 0]
               ELSE [end |-> "continue", result |-> NoRecord, sleep |-> 0]
               : r \in {CrossrefOn200(doi, resp.text, ekeys)} })
    ELSE IF resp.status = 404
    THEN [end |-> "return", result |-> NoRecord, sleep |-> 0]    \* line 323-325
    ELSE [end |-> "continue", result |-> NoRecord, sleep |-> 0]  \* line 327-328

\* the arXiv lookup taking a missing abstract as no abstract
_get_metadata_from_arxiv_optional_abstract(arxiv_id, feed, ekeys) ==
    IF feed.kind # "entry" THEN NoRecord
    ELSE IF feed.title = None \/ None \in Range(feed.authors) \/ feed.published = None
    THEN NoRecord
    ELSE The({ IF ~year.ok THEN NoRecord
               ELSE PaperMetadata(Strip(feed.title), feed.authors, year.value,
                                  generate_bibtex_key(feed.authors, year.value, ekeys),
                                  <<>>, Str_arXiv_preprint, None, None, None,
                                  Str_arxiv_abs \o arxiv_id, None, None, "arxiv")
               : year \in {ParseInt(SubSeq(feed.published, 1,
                               IF Len(feed.published) < 4 THEN Len(feed.published) ELSE 4))} })

\* lines 354-404.  feed is what the request and the XML give:
\*   kind "request_error"  session.get raises
\*        "status"         a response with a status other than 200
\*        "bad_xml"        ET.fromstring raises
\*        "no_entry"       the feed has no entry
\*        "entry"          the first entry, with title / published / summary
\*                         texts (None when the element or its text is
\*                         missing) and the author names
_get_metadata_from_arxiv(arxiv_id, feed, ekeys) ==
    IF feed.kind # "entry" THEN NoRecord
    ELSE IF feed.title = None THEN NoRecord          \* AttributeError, line 401
    ELSE IF feed.published = None THEN NoRecord
    ELSE LET year == ParseInt(SubSeq(feed.published, 1,
                         IF Len(feed.published) < 4 THEN Len(feed.published) ELSE 4))
         IN IF ~year.ok THEN NoRecord                 \* ValueError, line 401
            ELSE IF feed.summary = None THEN NoRecord
            ELSE IF feed.authors # <<>> /\ feed.authors[1] = None
            THEN [kind |-> "none", keygen |-> TRUE,      \* TypeError in utils.py line 201
                  authors |-> feed.authors, year |-> year.value, key |-> None]
            ELSE IF None \in Range(feed.authors)
            THEN [kind |-> "none", keygen |-> TRUE,      \* TypeError in line 575
                  authors |-> feed.authors, year |-> year.value,
                  key |-> generate_bibtex_key(feed.authors, year.value, ekeys)]
            ELSE LET title == Strip(feed.title)
                     bibtex_key == generate_bibtex_key(feed.authors, year.value, ekeys)
                     url == Str_arxiv_abs \o arxiv_id
                     bibtex_entry == _create_bibtex_entry(Str_article, bibtex_key,
                                         title, feed.authors, year.value,
                                         Str_arXiv_preprint, url)
                 IN PaperMetadata(title, feed.authors, year.value, bibtex_key,
                                  bibtex_entry, Str_arXiv_preprint, None, None,
                                  None, url, Strip(feed.summary), None, "arxiv")

\* a PubMed lookup that is implemented and answers with a record
_get_metadata_from_pubmed_answers(pmid, ekeys) ==
    PaperMetadata(pmid, <<>>, DefaultYear, generate_bibtex_key(<<>>, DefaultYear, ekeys), <<>>, None, None, None, None, None, None, None, "pubmed")

\* the PubMed stub raising instead of returning None
_get_metadata_from_pubmed_raises(pmid, ekeys) == Raised

\* lines 421-423: a placeholder
_get_metadata_from_pubmed(pmid, ekeys) == NoRecord

\* the PDF properties accepted without an author
PdfProperties_author_optional(doc, ekeys) ==
    IF ~doc.has_metadata THEN NoRecord
    ELSE The({ IF Truthy(doc.title) /\ parsedYear.ok /\ parsedYear.value # 0
               THEN PaperMetadata(doc.title, <<doc.author>>, parsedYear.value,
                                  generate_bibtex_key(<<doc.author>>, parsedYear.value, ekeys),
                                  <<>>, None, None, None, None, None, None, None,
                                  "pdf_metadata")
               ELSE NoRecord
               : parsedYear \in {IF Truthy(doc.creationDate)
                                 THEN ParseInt(SubSeq(doc.creationDate, 3,
                                          IF Len(doc.creationDate) < 6
                                          THEN Len(doc.creationDate) ELSE 6))
                                 ELSE [ok |-> FALSE, value |-> 0]} })

\* lines 441-476, once the file is open.  doc is what fitz.open and
\* doc.metadata give:
\*   opens FALSE: fitz.open raises;  has_metadata FALSE: metadata is empty;
\*   title, author, creationDate: the properties ('' when absent)
PdfProperties(doc, ekeys) ==
    IF ~doc.has_metadata THEN NoRecord
    ELSE LET parsedYear ==
                 IF Truthy(doc.creationDate)
                 THEN ParseInt(SubSeq(doc.creationDate, 3,
                          IF Len(doc.creationDate) < 6 THEN Len(doc.creationDate) ELSE 6))
                 ELSE [ok |-> FALSE, value |-> 0]
             \* year is None (falsy) when absent or rejected by int(); 0 is falsy too
             hasYear == parsedYear.ok /\ parsedYear.value # 0
         IN IF Truthy(doc.title) /\ Truthy(doc.author) /\ hasYear
            THEN LET authors == <<doc.author>>
                     year == parsedYear.value
                     bibtex_key == generate_bibtex_key(authors, year, ekeys)
                     bibtex_entry == _create_bibtex_entry(Str_article, bibtex_key,
                                         doc.title, authors, year, None, None)
                 IN PaperMetadata(doc.title, authors, year, bibtex_key,
                                  bibtex_entry, None, None, None, None, None,
                                  None, None, "pdf_metadata")
            ELSE NoRecord

\* _extract_from_pdf_metadata without its try/except: the failure of
\* fitz.open leaves the strategy
_extract_from_pdf_metadata_unguarded(doc, ekeys) ==
    IF ~doc.opens THEN Raised
    ELSE PdfProperties(doc, ekeys)

\* lines 440-481: the try block, and the except of lines 478-481
_extract_from_pdf_metadata(doc, ekeys) ==
    IF ~doc.opens THEN NoRecord
    ELSE PdfProperties(doc, ekeys)

\* text.split('\n')
RECURSIVE SplitLines(_)
SplitLines(text) ==
    LET nl == IndexFrom(text, 1, "\n")
    IN IF nl = 0 THEN <<text>>
       ELSE <<SubSeq(text, 1, nl - 1)>> \o SplitLines(SubSeq(text, nl + 1, Len(text)))

\* \b\d{4}\b: any four-digit token
YearAt_any_four_digits(t, i) ==
    IF /\ i + 3 <= Len(t)
       /\ \A k \in i..(i + 3) : IsDigit(t[k])
       /\ (i = 1 \/ ~IsWord(t[i - 1]))
       /\ (i + 3 = Len(t) \/ ~IsWord(t[i + 4]))
    THEN i + 3 ELSE 0

\* (19|20)\d{2} without the word boundaries
YearAt_unanchored(t, i) ==
    IF /\ i + 3 <= Len(t)
       /\ (LiteralAt(t, i, <<"1", "9">>, FALSE) \/ LiteralAt(t, i, <<"2", "0">>, FALSE))
       /\ IsDigit(t[i + 2]) /\ IsDigit(t[i + 3])
    THEN i + 3 ELSE 0

\* \b(19|20)\d{2}\b  matched at index i: index of its last character, else 0
YearAt(t, i) ==
    IF /\ i + 3 <= Len(t)
       /\ (LiteralAt(t, i, <<"1", "9">>, FALSE) \/ LiteralAt(t, i, <<"2", "0">>, FALSE))
       /\ IsDigit(t[i + 2]) /\ IsDigit(t[i + 3])
       /\ (i = 1 \/ ~IsWord(t[i - 1]))
       /\ (i + 3 = Len(t) \/ ~IsWord(t[i + 4]))
    THEN i + 3 ELSE 0

\* lines 500-527
_parse_metadata_from_text(text, stem, ekeys) ==
    LET lines == SplitLines(text)
        title == IF lines # <<>> THEN lines[1] ELSE stem
        year_match == Search(text, [i \in 1..Len(text) |-> YearAt(text, i)])
        year == IF year_match # NoMatch
                THEN DigitsValue(SubSeq(text, year_match.from, year_match.to), 0)
                ELSE DefaultYear
        authors == <<UnknownStr>>
        bibtex_key == generate_bibtex_key(authors, year, ekeys)
        bibtex_entry == _create_bibtex_entry(Str_article, bibtex_key, title,
                                             authors, year, None, None)
    IN PaperMetadata(title, authors, year, bibtex_key, bibtex_entry, None, None,
                     None, None, None, None, None, "parsed")

(***************************************************************************)
(* A batch of key requests sharing one evolving existing_keys set          *)
(* (src/scripts/initial_setup.py, process_pdf_library lines 141-184)       *)
(***************************************************************************)
MaxCalls == 3

Str_Smith == <<"S","m","i","t","h">>
Str_Jones == <<"J","o","n","e","s">>
Str_John == <<"J","o","h","n">>

\* first-author strings the calls draw from
AuthorInputs ==
    { <<>>,                                        \* no authors
      <<Str_Smith \o <<",", " ">> \o Str_John>>,    \* "Smith, John"
      <<Str_John \o <<" ">> \o Str_Smith>>,         \* "John Smith"
      <<Str_Jones, Str_Smith>>,                    \* "Jones" then "Smith"
      << <<>> >>,                                  \* one empty author string
      << <<",", " ">> \o Str_John >> }             \* ", John"

YearInputs == {2024}

BaseSmith == Str_Smith \o IntToStr(2024)

\* base, base+'a', ..., the first n letters; nothing for n = -1
LetterRun(base, n) ==
    IF n < 0 THEN {}
    ELSE {base} \cup { base \o <<Lower[i]>> : i \in 1..n }

\* keys that earlier runs may have left in the store
ExtraKeys ==
    { BaseSmith \o <<"_">> \o IntToStr(26),
      BaseSmith \o <<"_">> \o IntToStr(27),
      Str_Jones \o IntToStr(2024) }

InitialKeySets ==
    { LetterRun(BaseSmith, n) \cup X : n \in (-1)..26, X \in SUBSET ExtraKeys }

\* the vector store (src/src/vector_store.py) as its callers use it: papers
\* are filed under their bibtex_key; store[k] is the number of papers under k
EmptyStore == [k \in {} |-> 0]

StoreOf(keys) == [k \in keys |-> 1]

get_all_bibtex_keys(s) == DOMAIN s

add_paper(s, key) ==
    [k \in DOMAIN s \cup {key} |-> IF k \in DOMAIN s
                                   THEN s[k] + (IF k = key THEN 1 ELSE 0)
                                   ELSE 1]

\* the add-paper requests a server is handling
AddRequests == {"r1", "r2"}

NoHandler == [pc |-> "pending", authors |-> <<>>, year |-> 0,
              existing_keys |-> {}, key |-> <<>>]

NoPrev == [authors |-> <<>>, year |-> 0, snapshot |-> {}, key |-> <<>>, made |-> FALSE]

NoCall == [authors |-> <<>>, year |-> 0, snapshot |-> {}, key |-> <<>>, made |-> FALSE,
           stored |-> FALSE,
           after |-> {}, prev |-> NoPrev, tests |-> 0]

InitKeys ==
    /\ existing_keys \in InitialKeySets
    /\ returned = <<>>
    /\ call = NoCall
    /\ PDF2BIB_AVAILABLE = TRUE
    /\ self_max_retries = 3
    /\ self_retry_delay = 1
    /\ pc = "idle"
    /\ pdf_readable = TRUE
    /\ first_pages_text = None
    /\ crossref_doi = None
    /\ crossref_attempt = 0
    /\ trace = <<>>
    /\ log = <<>>
    /\ metadata = [none |-> TRUE]
    /\ store = EmptyStore
    /\ handlers = [r \in AddRequests |-> NoHandler]
    /\ running = "none"

\* one document of the batch: the key is generated against the shared set
\* (line 177-181) and the caller adds it to the set (line 184); the
\* embedding or vector_store.add_paper then raises into the handler of line
\* 228 (stored FALSE) or the paper is inserted under the key (line 206-212)
KeyCall(authors, year) ==
    /\ Len(returned) < MaxCalls
    /\ LET key == generate_bibtex_key(authors, year, existing_keys)
           after == existing_keys_after(authors, year, existing_keys)
       IN /\ \E stored \in BOOLEAN :
               call' = [authors |-> authors, year |-> year,
                      snapshot |-> existing_keys, key |-> key, made |-> TRUE,
                      stored |-> stored,
                      after |-> after,
                      tests |-> CollisionTests(BaseKey(authors, year),
                                               BaseKey(authors, year), OrdA, existing_keys),
                      prev |-> [authors |-> call.authors, year |-> call.year,
                                snapshot |-> call.snapshot, key |-> call.key,
                                made |-> call.made]]
          /\ returned' = Append(returned, key)
          /\ existing_keys' = after \cup {key}
    /\ UNCHANGED <<serverVars, config, extractVars>>

NextKeys == \E authors \in AuthorInputs, year \in YearInputs : KeyCall(authors, year)

SpecKeys == InitKeys /\ [][NextKeys]_vars

(***************************************************************************)
(* extract_metadata (metadata_extractor.py lines 100-165) as a step        *)
(* machine: one step per strategy, and one per iteration of the DOI        *)
(* lookup's retry loop.  What the file, the network and the libraries do   *)
(* is chosen when the step that asks them runs.                            *)
(***************************************************************************)
MaxRetriesLimit == 3      \* self.max_retries is drawn from 0..MaxRetriesLimit (default 3)
\* the values self.retry_delay is drawn from (default 1)
RetryDelays == {1, 2}

Str_stem == <<"p","a","p","e","r">>

\* first_pages_text arguments
Text_garbage == <<"#","!","?"," ","z","z">>
Text_title_year == <<"T","i","t","l","e","\n","x","1","9","9","9"," ","2","0","0","1","a"," ","1","9","8","7",".">>
Text_arxiv == <<"a","r","X","i","v",":","2","1","0","1",".","1","2","3","4","5"," ","(","2","0","2","1",")">>
Text_pmid == <<"P","M","I","D",":"," ","1","2","3","4","5","6","7">>
Text_all == <<"\n","1","0",".","1","2","3","4","/","a",";"," ","a","r","x","i","v",".","o","r","g","/","a","b","s","/","2","1","0","1",".","1","2","3","4"," ","p","m","i","d",":","1","2","3","4","5","6","7","8">>

TextInputs ==
    {None, <<>>, Text_garbage, Text_title_year, Text_arxiv, Text_pmid, Text_all}

\* structured-citation texts that the DOI registry and pdf2bib hand back
Bib_canonical == <<"@","a","r","t","i","c","l","e","{","O","l","d",",","a","u","t","h","o","r","=","{","J","o","h","n"," ","S","m","i","t","h","}",",","t","i","t","l","e","=","{","T","}",",","y","e","a","r","=","{","2","0","2","0","}",",","d","o","i","=","{","1","0",".","1","/","x","}","}">>
Bib_spaced == <<" ","@","a","r","t","i","c","l","e"," ","{","O","l","d",","," ","a","u","t","h","o","r"," ","="," ","{","S","m","i","t","h",","," ","J","o","h","n","}",","," ","y","e","a","r"," ","="," ","2","0","2","0","}">>
Bib_paren == <<"@","m","i","s","c","(","O","l","d",",","t","i","t","l","e","=","{","T","}",")">>
Bib_bad_year == <<"@","a","r","t","i","c","l","e","{","O","l","d",",","y","e","a","r","=","{","2","0","x","}","}">>
Bib_short_year == <<"@","b","o","o","k","{","O","l","d",",","y","e","a","r","=","{","3","0","}",",","p","u","b","l","i","s","h","e","r","=","{","P","}","}">>
Bib_truncated == <<"@","a","r","t","i","c","l","e","{","O","l","d",",","y","e","a","r","=">>
Bib_garbage == <<"N","o","t"," ","f","o","u","n","d">>

BibTexts ==
    {Bib_canonical, Bib_spaced, Bib_paren, Bib_bad_year, Bib_short_year,
     Bib_truncated, Bib_garbage}

Doi_1 == <<"1","0",".","1","/","x">>

\* what pdf2bib.pdf2bib does (line 189)
Pdf2bibRaises ==
    [raises |-> TRUE, shape |-> "nondict", identifier |-> None,
     identifier_type |-> "unknown", bibtex |-> None, url |-> None]

Pdf2bibOutcomes ==
    {Pdf2bibRaises}
    \cup [raises : {FALSE}, shape : {"nondict", "other", "bypath_bad"},
          identifier : {None}, identifier_type : {"unknown"},
          bibtex : {None}, url : {None}]
    \cup [raises : {FALSE}, shape : {"direct"},
          identifier : {None, Doi_1},
          identifier_type : {"doi", "arxiv", "unknown"},
          bibtex : {None} \cup BibTexts, url : {None}]
    \cup [raises : {FALSE}, shape : {"bypath"},
          identifier : {<<>>, Doi_1},
          identifier_type : {"doi"},
          bibtex : {<<>>, Bib_canonical}, url : {None}]

\* what session.get does in the DOI lookup (line 286)
CrossrefResponses ==
    [kind : {"timeout", "connection_error"}, status : {0}, text : {<<>>}]
    \cup [kind : {"status"}, status : {404, 500}, text : {<<>>}]
    \cup [kind : {"status"}, status : {200}, text : BibTexts \cup {<<>>}]

\* what the arXiv request and its feed give (lines 355-374)
ArxivFeeds ==
    [kind : {"request_error", "status", "bad_xml", "no_entry"}, title : {None},
     authors : {<<>>}, published : {None}, summary : {None}]
    \cup [kind : {"entry"}, title : {None, <<" ", "T", "\n">>},
          authors : {<<>>, <<Str_John \o <<" ">> \o Str_Smith>>, <<Str_Jones, None>>},
          published : {None, <<"2","0","2","1","-","0","1","-","0","2">>, <<"2","1">>, <<"n",".","d",".">>},
          summary : {None}]
    \cup [kind : {"entry"}, title : {<<" ", "T", "\n">>},
          authors : {<<Str_John \o <<" ">> \o Str_Smith>>, <<Str_Jones, None>>},
          published : {<<"2","0","2","1","-","0","1","-","0","2">>},
          summary : {<<"S">>}]

\* what fitz.open and doc.metadata give (lines 441-453)
PdfDocs ==
    [opens : {FALSE}, has_metadata : {FALSE}, title : {<<>>}, author : {<<>>},
     creationDate : {<<>>}]
    \cup [opens : {TRUE}, has_metadata : {FALSE}, title : {<<>>}, author : {<<>>},
          creationDate : {<<>>}]
    \cup [opens : {TRUE}, has_metadata : {TRUE}, title : {<<>>, <<"T">>},
          author : {<<>>, Str_Smith},
          creationDate : {<<>>, <<"D",":","2","0","1","9","0","3","0","4">>, <<"D",":","1","9">>, <<"2","0","1","9">>, <<"D",":","0","0","0","0">>}]

\* contents of the store that a resolution may start from
SaturatedSmith ==
    LetterRun(Str_Smith \o IntToStr(2020), 25)
    \cup {Str_Smith \o IntToStr(2020) \o <<"_">> \o IntToStr(27)}

ExtractKeySets ==
    { {UnknownStr \o IntToStr(2024), Str_Smith \o IntToStr(2020)}, SaturatedSmith }

NoMetadata == [none |-> TRUE]

InitExtract ==
    /\ existing_keys \in ExtractKeySets
    /\ returned = <<>>
    /\ call = NoCall
    /\ PDF2BIB_AVAILABLE \in BOOLEAN
    /\ self_max_retries \in 0..MaxRetriesLimit
    /\ self_retry_delay \in RetryDelays
    /\ pc = "idle"
    /\ pdf_readable = TRUE
    /\ first_pages_text = None
    /\ crossref_doi = None
    /\ crossref_attempt = 0
    /\ trace = <<>>
    /\ log = <<>>
    /\ metadata = NoMetadata
    /\ store = EmptyStore
    /\ handlers = [r \in AddRequests |-> NoHandler]
    /\ running = "none"

\* the caller invokes extract_metadata(pdf_path, first_pages_text, existing_keys)
Call(text, readable) ==
    /\ pc = "idle"
    /\ returned = <<>>
    /\ pc' = "pdf2bib"
    /\ pdf_readable' = readable
    /\ first_pages_text' = text
    /\ crossref_doi' = None
    /\ crossref_attempt' = 0
    /\ trace' = <<>>
    /\ log' = <<>>
    /\ metadata' = NoMetadata
    /\ UNCHANGED <<keyVars, serverVars, config>>

\* the strategy that gave r called generate_bibtex_key: it built a record, or
\* it failed after the call
KeyInvoked(r) == r.kind = "record" \/ (r.kind = "none" /\ "keygen" \in DOMAIN r)

\* the arguments and the result of that call
InvokedWith(r) ==
    IF r.kind = "record"
    THEN [authors |-> r.metadata.authors, year |-> r.metadata.year,
          key |-> r.metadata.bibtex_key]
    ELSE [authors |-> r.authors, year |-> r.year, key |-> r.key]

\* the call of generate_bibtex_key(authors, year, existing_keys) made by a
\* strategy (lines 227, 299, 376, 460, 510), as the variable call keeps it
GeneratorCall(a) ==
    [authors |-> a.authors, year |-> a.year, snapshot |-> existing_keys,
     key |-> a.key, made |-> TRUE, stored |-> FALSE,
     after |-> existing_keys_after(a.authors, a.year, existing_keys),
     prev |-> [authors |-> call.authors, year |-> call.year,
               snapshot |-> call.snapshot, key |-> call.key, made |-> call.made],
     tests |-> IF a.key = None THEN 0
               ELSE CollisionTests(BaseKey(a.authors, a.year),
                                   BaseKey(a.authors, a.year), OrdA, existing_keys)]

\* what the strategy's call of the key generator, if any, leaves behind
KeyGeneratorEffect(r) ==
    /\ call' = IF KeyInvoked(r) THEN GeneratorCall(InvokedWith(r)) ELSE call
    /\ existing_keys' = IF KeyInvoked(r) THEN call'.after ELSE existing_keys

\* Advance with the record's source overwritten by the orchestrator
Advance_relabelled(r, next) ==
    /\ pc' = IF r.kind = "record" THEN "done"
             ELSE IF r.kind = "raise" THEN "raised" ELSE next
    /\ metadata' = IF r.kind = "record"
                   THEN [r.metadata EXCEPT !.extraction_method = "parsed"]
                   ELSE NoMetadata
    /\ KeyGeneratorEffect(r)

\* Advance without the early return: a record is kept and the next strategy
\* is tried all the same
Advance_no_return(r, next) ==
    /\ pc' = IF r.kind = "raise" THEN "raised" ELSE next
    /\ metadata' = IF r.kind = "record" THEN r.metadata ELSE metadata
    /\ KeyGeneratorEffect(r)

\* a strategy's result decides where the orchestrator goes: return the
\* record, go on to the step next, or let the exception propagate
Advance(r, next) ==
    /\ pc' = IF r.kind = "record" THEN "done"
             ELSE IF r.kind = "raise" THEN "raised" ELSE next
    /\ metadata' = IF r.kind = "record" THEN r.metadata ELSE NoMetadata
    /\ KeyGeneratorEffect(r)

\* what the file allows the utility: from a file that cannot be opened it
\* gets no identifier
Pdf2bibPossible(util) == pdf_readable \/ util.raises \/ ~Truthy(util.identifier)

\* Strategy 1, lines 126-129
TryPdf2bib ==
    /\ pc = "pdf2bib"
    /\ IF PDF2BIB_AVAILABLE
       THEN \E util \in Pdf2bibOutcomes :
               /\ Pdf2bibPossible(util)
               /\ trace' = Append(trace, "pdf2bib")
               /\ Advance(_get_metadata_from_pdf2bib(util, existing_keys), "doi")
       ELSE /\ pc' = "doi"
            /\ UNCHANGED <<trace, metadata, existing_keys, call>>
    /\ UNCHANGED <<returned, serverVars, config, pdf_readable, first_pages_text, crossref_doi, crossref_attempt, log>>

\* the search of the text for an identifier, as the log records it
Searched(what, outcome) == [ev |-> what, d |-> 0, out |-> outcome]

\* the log after a search that found nothing: none was made without a text
AfterNoMatch(what) ==
    IF Truthy(first_pages_text) THEN Append(log, Searched(what, "none")) ELSE log

\* TryDoi searching for a DOI whether or not the call was given a text
TryDoi_without_text_check ==
    /\ pc = "doi"
    /\ LET found == extract_doi_from_text(IF Truthy(first_pages_text)
                                          THEN first_pages_text ELSE <<>>)
       IN IF Truthy(found)
          THEN /\ crossref_doi' = found
               /\ trace' = Append(trace, "crossref")
               /\ log' = Append(log, Searched("extract_doi", "found"))
               /\ pc' = IF self_max_retries > 0 THEN "crossref" ELSE "arxiv"
          ELSE /\ pc' = "arxiv"
               /\ log' = Append(log, Searched("extract_doi", "none"))
               /\ UNCHANGED <<crossref_doi, trace>>
    /\ crossref_attempt' = 0
    /\ UNCHANGED <<keyVars, serverVars, config, pdf_readable, first_pages_text, metadata>>

\* Strategy 2, lines 132-136: the DOI is looked for in the text and the
\* lookup is entered (line 284: the loop runs self_max_retries times)
TryDoi ==
    /\ pc = "doi"
    /\ LET found == IF Truthy(first_pages_text)
                    THEN extract_doi_from_text(first_pages_text) ELSE None
       IN IF Truthy(found)
          THEN /\ crossref_doi' = found
               /\ trace' = Append(trace, "crossref")
               /\ log' = Append(log, Searched("extract_doi", "found"))
               /\ pc' = IF self_max_retries > 0 THEN "crossref" ELSE "arxiv"
          ELSE /\ pc' = "arxiv"
               /\ log' = AfterNoMatch("extract_doi")
               /\ UNCHANGED <<crossref_doi, trace>>
    /\ crossref_attempt' = 0
    /\ UNCHANGED <<keyVars, serverVars, config, pdf_readable, first_pages_text, metadata>>

\* how a request ended, as the log records it
Outcome(resp) ==
    IF resp.kind # "status" THEN resp.kind
    ELSE IF resp.status = 200 THEN "ok"
    ELSE IF resp.status = 404 THEN "not_found"
    ELSE "other_status"

\* one iteration of the loop of lines 284-333, and lines 137-138 when the
\* lookup returns
CrossrefAttempt(resp) ==
    /\ pc = "crossref"
    /\ crossref_attempt < self_max_retries
    /\ LET last == crossref_attempt + 1 >= self_max_retries
       IN \E it \in {CrossrefIteration(crossref_doi, resp, crossref_attempt, self_max_retries,
                                       self_retry_delay, existing_keys)} :
               /\ log' = log \o <<[ev |-> "request", d |-> 0, out |-> Outcome(resp)]>>
                         \o (IF it.end = "continue" /\ it.sleep > 0
                             THEN <<[ev |-> "sleep", d |-> it.sleep, out |-> "slept"]>>
                             ELSE <<>>)
               /\ crossref_attempt' = crossref_attempt + 1
               /\ IF it.end = "raise" THEN Advance(Raised, "arxiv")
                  ELSE IF it.end = "return" THEN Advance(it.result, "arxiv")
                  ELSE IF last THEN Advance(NoRecord, "arxiv")          \* line 335
                  ELSE UNCHANGED <<pc, metadata, existing_keys, call>>
    /\ UNCHANGED <<returned, serverVars, config, pdf_readable, first_pages_text, crossref_doi, trace>>

\* how the arXiv request ended, as the log records it: the kind of the feed,
\* and for a feed with an entry whether an element the code reads (lines
\* 367-374) is missing or the first four characters of its date are no
\* integer
ArxivOutcome(feed) ==
    IF feed.kind # "entry" THEN feed.kind
    ELSE IF \/ feed.title = None
            \/ \E k \in DOMAIN feed.authors : feed.authors[k] = None
            \/ feed.published = None
            \/ feed.summary = None
    THEN "entry_unreadable"
    ELSE IF ~ParseInt(SubSeq(feed.published, 1, 4)).ok
    THEN "entry_unreadable"
    ELSE "entry"

\* Strategy 3, lines 141-147
TryArxiv ==
    /\ pc = "arxiv"
    /\ LET arxiv_id == IF Truthy(first_pages_text)
                       THEN extract_arxiv_id_from_text(first_pages_text) ELSE None
       IN IF Truthy(arxiv_id)
          THEN \E feed \in ArxivFeeds :
                  /\ trace' = Append(trace, "arxiv")
                  /\ log' = log \o <<Searched("extract_arxiv", "found"),
                                      [ev |-> "arxiv_request", d |-> 0,
                                       out |-> ArxivOutcome(feed)]>>
                  /\ Advance(_get_metadata_from_arxiv(arxiv_id, feed, existing_keys),
                             "pubmed")
          ELSE /\ pc' = "pubmed"
               /\ log' = AfterNoMatch("extract_arxiv")
               /\ UNCHANGED <<trace, metadata, existing_keys, call>>
    /\ UNCHANGED <<returned, serverVars, config, pdf_readable, first_pages_text, crossref_doi, crossref_attempt>>

\* TryPubmed going back to the DOI strategy when it has no record
TryPubmed_back_to_doi ==
    /\ pc = "pubmed"
    /\ LET pmid == IF Truthy(first_pages_text)
                   THEN extract_pubmed_id_from_text(first_pages_text) ELSE None
       IN IF Truthy(pmid)
          THEN /\ trace' = Append(trace, "pubmed")
               /\ log' = Append(log, Searched("extract_pmid", "found"))
               /\ Advance(_get_metadata_from_pubmed(pmid, existing_keys), "doi")
          ELSE /\ pc' = "doi"
               /\ log' = AfterNoMatch("extract_pmid")
               /\ UNCHANGED <<trace, metadata, existing_keys, call>>
    /\ UNCHANGED <<returned, serverVars, config, pdf_readable, first_pages_text, crossref_doi, crossref_attempt>>

\* Strategy 4, lines 150-156
TryPubmed ==
    /\ pc = "pubmed"
    /\ LET pmid == IF Truthy(first_pages_text)
                   THEN extract_pubmed_id_from_text(first_pages_text) ELSE None
       IN IF Truthy(pmid)
          THEN /\ trace' = Append(trace, "pubmed")
               /\ log' = Append(log, Searched("extract_pmid", "found"))
               /\ Advance(_get_metadata_from_pubmed(pmid, existing_keys), "pdf_metadata")
          ELSE /\ pc' = "pdf_metadata"
               /\ log' = AfterNoMatch("extract_pmid")
               /\ UNCHANGED <<trace, metadata, existing_keys, call>>
    /\ UNCHANGED <<returned, serverVars, config, pdf_readable, first_pages_text, crossref_doi, crossref_attempt>>

\* Strategy 5, lines 159-161
TryPdfMetadata ==
    /\ pc = "pdf_metadata"
    /\ \E doc \in PdfDocs :
          /\ doc.opens = pdf_readable
          /\ trace' = Append(trace, "pdf_metadata")
          /\ Advance(_extract_from_pdf_metadata(doc, existing_keys), "parsed")
    /\ UNCHANGED <<returned, serverVars, config, pdf_readable, first_pages_text, crossref_doi, crossref_attempt, log>>

\* Strategy 6, lines 164-165
TryTextHeuristic ==
    /\ pc = "parsed"
    /\ trace' = Append(trace, "parsed")
    /\ Advance(_parse_metadata_from_text(
                   IF Truthy(first_pages_text) THEN first_pages_text ELSE <<>>,
                   Str_stem, existing_keys), "done")
    /\ UNCHANGED <<returned, serverVars, config, pdf_readable, first_pages_text, crossref_doi, crossref_attempt, log>>

\* the caller takes the record and adds its key to the shared set
\* (src/scripts/initial_setup.py line 184)
Return ==
    /\ pc = "done"
    /\ metadata # NoMetadata
    /\ pc' = "idle"
    /\ existing_keys' = existing_keys \cup {metadata.bibtex_key}
    /\ returned' = Append(returned, metadata.bibtex_key)
    /\ UNCHANGED <<call, serverVars, config, pdf_readable, first_pages_text, crossref_doi, crossref_attempt,
                   trace, log, metadata>>

NextExtract ==
    \/ \E text \in TextInputs, readable \in BOOLEAN : Call(text, readable)
    \/ TryPdf2bib
    \/ TryDoi
    \/ \E resp \in CrossrefResponses : CrossrefAttempt(resp)
    \/ TryArxiv
    \/ TryPubmed
    \/ TryPdfMetadata
    \/ TryTextHeuristic
    \/ Return

SpecExtract == InitExtract /\ [][NextExtract]_vars

(***************************************************************************)
(* The text functions on their own: extract_doi_from_text applied to texts *)
(* built from a lead, a DOI-like core and a tail, and the citation         *)
(* normalizer applied to structured-citation texts                         *)
(***************************************************************************)
DoiLeads ==
    { <<>>, <<"S","e","e"," ","d","o","i",":"," ">>, <<"d","o","i",":">>, <<"D","O","I",":"," ">>, <<"D","o","i",":","\t">>, <<"d","o","i",":"," ","x","1","0",".","0","0","0","1","/","q"," ">> }

DoiCores ==
    { <<"1","0",".","1","2","3","4","/","a","b","c","d",".","5","6","7","8">>, <<"1","0",".","1","2","3","4","5","/","A">>, <<"1","0",".","1","2","3","/","a">>, <<"1","0",".","1","2","3","4","/">>, <<"1","1",".","1","2","3","4","/","a">> }

DoiTails ==
    { <<>>, <<".">>, <<",">>, <<";",":">>, <<"."," ">>, <<".","x">>, <<" ","1","0",".","9","9","9","9","/","z",".">> }

DoiTexts == { l \o c \o t : l \in DoiLeads, c \in DoiCores, t \in DoiTails }

InitSearch ==
    /\ existing_keys = {}
    /\ returned = <<>>
    /\ call = NoCall
    /\ PDF2BIB_AVAILABLE = TRUE
    /\ self_max_retries = 3
    /\ self_retry_delay = 1
    /\ pc = "text"
    /\ pdf_readable = TRUE
    /\ first_pages_text \in DoiTexts \cup BibTexts
    /\ crossref_doi = None
    /\ crossref_attempt = 0
    /\ trace = <<>>
    /\ log = <<>>
    /\ metadata = NoMetadata
    /\ store = EmptyStore
    /\ handlers = [r \in AddRequests |-> NoHandler]
    /\ running = "none"

\* doi = extract_doi_from_text(first_pages_text), line 133
SearchDoi ==
    /\ pc = "text"
    /\ crossref_doi' = extract_doi_from_text(first_pages_text)
    /\ pc' = "searched"
    /\ UNCHANGED <<keyVars, serverVars, config, pdf_readable, first_pages_text, crossref_attempt,
                   trace, log, metadata>>

\* parsed = self._parse_bibtex_entry(bibtex_entry), lines 221 and 292, on a
\* text that a lookup handed back
NormalizeCitation ==
    /\ pc = "text"
    /\ metadata' = _parse_bibtex_entry(first_pages_text)
    /\ pc' = "normalized"
    /\ UNCHANGED <<keyVars, serverVars, config, pdf_readable, first_pages_text, crossref_doi,
                   crossref_attempt, trace, log>>

\* Strategy 5 on its own, lines 159-161, for a document whose properties
\* are kept in the log; on failure the call stands at strategy 6
ReadProperties ==
    /\ pc = "text"
    /\ \E doc \in PdfDocs :
          /\ trace' = Append(trace, "pdf_metadata")
          /\ log' = Append(log, [ev |-> "pdf_properties", d |-> 0, out |-> "read",
                                  doc |-> doc])
          /\ pdf_readable' = doc.opens
          /\ Advance(_extract_from_pdf_metadata(doc, existing_keys), "parsed")
    /\ UNCHANGED <<returned, serverVars, config, first_pages_text, crossref_doi, crossref_attempt>>

\* Strategy 1 on its own, lines 126-129, for a utility whose behaviour is
\* kept in the log; on failure the call stands at strategy 2
RunPdf2bib ==
    /\ pc = "text"
    /\ \E util \in Pdf2bibOutcomes :
          /\ trace' = Append(trace, "pdf2bib")
          /\ log' = Append(log, [ev |-> "pdf2bib", d |-> 0, out |-> "called",
                                  util |-> util])
          /\ Advance(_get_metadata_from_pdf2bib(util, existing_keys), "doi")
    /\ UNCHANGED <<returned, serverVars, config, pdf_readable, first_pages_text, crossref_doi, crossref_attempt>>

NextSearch ==
    \/ SearchDoi
    \/ NormalizeCitation
    \/ RunPdf2bib
    \/ ReadProperties
    \/ TryTextHeuristic

SpecSearch == InitSearch /\ [][NextSearch]_vars

(***************************************************************************)
(* The servers' add-paper operation (src/src/mcp_http_server.py, lines     *)
(* 256-332; src/src/mcp_server.py, lines 348-411 has the same steps).  The *)
(* handlers are coroutines of one event loop: the loop runs one coroutine  *)
(* until it awaits or returns, and only then takes up another request.     *)
(***************************************************************************)
\* the documents of the requests: first author and year as the resolution
\* finds them
ServerDocs ==
    { [authors |-> <<Str_Smith \o <<",", " ">> \o Str_John>>, year |-> 2024],
      [authors |-> <<Str_John \o <<" ">> \o Str_Smith>>, year |-> 2024],
      [authors |-> <<Str_Jones>>, year |-> 2024] }

ServerStores ==
    { StoreOf(LetterRun(BaseSmith, n) \cup X) :
        n \in {-1, 0, 25}, X \in SUBSET ExtraKeys }

InitServer ==
    /\ existing_keys = {}
    /\ returned = <<>>
    /\ call = NoCall
    /\ PDF2BIB_AVAILABLE = TRUE
    /\ self_max_retries = 3
    /\ self_retry_delay = 1
    /\ pc = "idle"
    /\ pdf_readable = TRUE
    /\ first_pages_text = None
    /\ crossref_doi = None
    /\ crossref_attempt = 0
    /\ trace = <<>>
    /\ log = <<>>
    /\ metadata = NoMetadata
    /\ store \in ServerStores
    /\ handlers = [r \in AddRequests |-> NoHandler]
    /\ running = "none"

\* the event loop takes up request r: lines 271-291, up to the early returns
\* for a missing file (line 279) and a duplicate PDF (line 284)
StartHandler(r) ==
    /\ running = "none"
    /\ handlers[r].pc = "pending"
    /\ \E early \in BOOLEAN, doc \in ServerDocs :
          IF early
          THEN /\ handlers' = [handlers EXCEPT ![r].pc = "returned"]
               /\ UNCHANGED running
          ELSE /\ handlers' = [handlers EXCEPT ![r].pc = "read_keys",
                                               ![r].authors = doc.authors,
                                               ![r].year = doc.year]
               /\ running' = r
    /\ UNCHANGED <<store, keyVars, config, extractVars>>

\* line 294: existing_keys = _vector_store.get_all_bibtex_keys()
ReadKeys(r) ==
    /\ running = r
    /\ handlers[r].pc = "read_keys"
    /\ handlers' = [handlers EXCEPT ![r].pc = "resolve",
                                    ![r].existing_keys = get_all_bibtex_keys(store)]
    /\ UNCHANGED <<store, running, keyVars, config, extractVars>>

\* lines 295-299: extract_metadata; the record's key is generated against the
\* set read in line 294
ResolveMetadata(r) ==
    /\ running = r
    /\ handlers[r].pc = "resolve"
    /\ handlers' = [handlers EXCEPT
                       ![r].pc = "embed",
                       ![r].key = generate_bibtex_key(handlers[r].authors,
                                                      handlers[r].year,
                                                      handlers[r].existing_keys)]
    /\ UNCHANGED <<store, running, keyVars, config, extractVars>>

\* lines 301-322: the embeddings (a blocking call that may raise) and the copy
\* of the PDF (whose failure is absorbed)
Embed(r) ==
    /\ running = r
    /\ handlers[r].pc = "embed"
    /\ \E raises \in BOOLEAN :
          IF raises
          THEN /\ handlers' = [handlers EXCEPT ![r].pc = "failed"]
               /\ running' = "none"
          ELSE /\ handlers' = [handlers EXCEPT ![r].pc = "insert"]
               /\ UNCHANGED running
    /\ UNCHANGED <<store, keyVars, config, extractVars>>

\* lines 325-332 and the return: _vector_store.add_paper(metadata, ...)
InsertPaper(r) ==
    /\ running = r
    /\ handlers[r].pc = "insert"
    /\ store' = add_paper(store, handlers[r].key)
    /\ handlers' = [handlers EXCEPT ![r].pc = "returned"]
    /\ running' = "none"
    /\ UNCHANGED <<keyVars, config, extractVars>>

NextServer ==
    \E r \in AddRequests :
        \/ StartHandler(r)
        \/ ReadKeys(r)
        \/ ResolveMetadata(r)
        \/ Embed(r)
        \/ InsertPaper(r)

SpecServer == InitServer /\ [][NextServer]_vars

(***************************************************************************)
(* Claims on the key generator                                             *)
(***************************************************************************)
\* C1: all keys returned by the calls of one batch, each added to the shared
\* existing_keys set before the next call, are pairwise distinct, whatever
\* the initial content of the set.
C1_ReturnedKeysDistinct ==
    \A i, j \in DOMAIN returned : i # j => returned[i] # returned[j]

\* C2: the key a call returns is not a member of the existing_keys set the
\* call was given.
C2_KeyNotInExistingKeys ==
    call.made => call.key \notin call.snapshot

(***************************************************************************)
(* Claims on the resolution orchestrator                                   *)
(***************************************************************************)
\* the steps of a running call; the call is sequential code, so a step that
\* can be taken is taken
ExtractSteps ==
    \/ TryPdf2bib
    \/ TryDoi
    \/ \E resp \in CrossrefResponses : CrossrefAttempt(resp)
    \/ TryArxiv
    \/ TryPubmed
    \/ TryPdfMetadata
    \/ TryTextHeuristic

\* the states in which a step of the running call can be taken: every
\* position of the call has its step, and the lookup loop has one while
\* attempts remain
StepsEnabled ==
    \/ pc = "pdf2bib" /\ (PDF2BIB_AVAILABLE => \E util \in Pdf2bibOutcomes : Pdf2bibPossible(util))
    \/ pc = "doi"
    \/ pc = "crossref" /\ crossref_attempt < self_max_retries
    \/ pc = "arxiv" /\ ArxivFeeds # {}
    \/ pc = "pubmed"
    \/ pc = "pdf_metadata" /\ (\E doc \in PdfDocs : doc.opens = pdf_readable)
    \/ pc = "parsed"

\* weak fairness of the call's steps, WF_vars(ExtractSteps), with the
\* enabling condition of ExtractSteps written out as StepsEnabled
FairSpecExtract ==
    SpecExtract /\ (([]<>(~StepsEnabled)) \/ ([]<><<ExtractSteps>>_vars))

Running == pc \notin {"idle", "done", "raised"}

HasRecord == metadata # NoMetadata

Last(s) == s[Len(s)]

\* the priority of a strategy (lines 125-165, top to bottom)
StrategyOrd(name) ==
    CASE name = "pdf2bib" -> 1
      [] name = "crossref" -> 2
      [] name = "arxiv" -> 3
      [] name = "pubmed" -> 4
      [] name = "pdf_metadata" -> 5
      [] name = "parsed" -> 6

\* the priority of the strategy that the step pc belongs to
StepOrd(step) == IF step = "doi" THEN 2 ELSE StrategyOrd(step)

Requests(l) == SelectSeq(l, LAMBDA e : e.ev = "request")

\* C3: every call to extract_metadata terminates and returns a record,
\* whatever each strategy's outcome was.
C3_CallReturnsRecord == Running ~> (pc = "done" /\ HasRecord)

\* a call in which all six strategies ran, the last one producing the record
C3_Witness ==
    /\ pc = "done" /\ HasRecord
    /\ trace = <<"pdf2bib", "crossref", "arxiv", "pubmed", "pdf_metadata", "parsed">>

\* C4: within one call the strategies are invoked in the fixed priority
\* order, each at most once, and the call never steps back to an earlier one.
C4_StrategiesInOrder ==
    /\ \A i, j \in DOMAIN trace : i < j => StrategyOrd(trace[i]) < StrategyOrd(trace[j])
    /\ Running /\ trace # <<>> => StrategyOrd(Last(trace)) <= StepOrd(pc)

C4_Witness ==
    /\ pc = "parsed"
    /\ trace = <<"pdf2bib", "crossref", "arxiv", "pubmed", "pdf_metadata">>

\* C5: the record a call returns is the record of the last strategy it
\* invoked: no strategy runs after one has produced a record.  After a
\* successful DOI lookup none of arXiv, PubMed, PDF-properties and text
\* heuristic has been invoked.
C5_ShortCircuit ==
    HasRecord =>
        /\ trace # <<>>
        /\ metadata.extraction_method = Last(trace)
        /\ (metadata.extraction_method = "crossref" =>
               \A i \in DOMAIN trace : trace[i] \in {"pdf2bib", "crossref"})

C5_Witness ==
    /\ pc = "done" /\ HasRecord
    /\ metadata.extraction_method = "crossref"
    /\ extract_arxiv_id_from_text(first_pages_text) # None
    /\ extract_pubmed_id_from_text(first_pages_text) # None

\* the key an entry carries, as a reader of the entry sees it
EmbeddedKey(entry) == parse_bibtex(entry).key

\* C6: the citation key embedded in bibtex_entry equals bibtex_key, for every
\* returned record, also when the entry is externally supplied text whose
\* key was replaced.
C6_EmbeddedKeyInSync ==
    HasRecord => EmbeddedKey(metadata.bibtex_entry) = metadata.bibtex_key

\* the maximal runs of word characters of a text, in order
WordTokens(t) ==
    LET starts == { i \in 1..Len(t) : IsWord(t[i]) /\ (i = 1 \/ ~IsWord(t[i - 1])) }
    IN { [from |-> i,
         to |-> CHOOSE j \in i..Len(t) :
                   /\ \A k \in i..j : IsWord(t[k])
                   /\ (j = Len(t) \/ ~IsWord(t[j + 1]))] : i \in starts }

\* the 4-digit tokens beginning with 19 or 20
YearTokens(t) ==
    { w \in WordTokens(t) :
        /\ w.to - w.from = 3
        /\ \A k \in w.from..w.to : IsDigit(t[k])
        /\ <<t[w.from], t[w.from + 1]>> \in {<<"1", "9">>, <<"2", "0">>} }

ExpectedYear(t) ==
    IF YearTokens(t) = {} THEN 2024
    ELSE LET w == CHOOSE x \in YearTokens(t) : \A y \in YearTokens(t) : x.from <= y.from
         IN 1000 * DigitValue(t[w.from]) + 100 * DigitValue(t[w.from + 1])
            + 10 * DigitValue(t[w.from + 2]) + DigitValue(t[w.from + 3])

TextOrEmpty == IF Truthy(first_pages_text) THEN first_pages_text ELSE <<>>

\* C7: when every earlier strategy failed or was skipped, the returned record
\* is the text heuristic's: method PARSED, the single author "Unknown", a
\* title that is not null, and as year the first 19xx/20xx token of the
\* text, 2024 when there is none.
C7_FallbackRecord ==
    (pc = "done" /\ trace # <<>> /\ Last(trace) = "parsed") =>
        /\ HasRecord
        /\ metadata.extraction_method = "parsed"
        /\ metadata.authors = <<UnknownStr>>
        /\ metadata.title # None
        /\ metadata.year = ExpectedYear(TextOrEmpty)

\* the text "Title\nx1999 2001a 1987." gives 1987, its first whole token
C7_Witness ==
    /\ pc = "done" /\ HasRecord
    /\ Last(trace) = "parsed"
    /\ first_pages_text = Text_title_year
    /\ metadata.year = 1987

C7_WitnessDefault ==
    /\ pc = "done" /\ HasRecord
    /\ first_pages_text = Text_garbage
    /\ metadata.year = 2024

\* C8: a call on a file that cannot be opened returns no record: it ends by
\* propagating an error to its caller.
C8_UnreadableFileRaises == ~pdf_readable => pc # "done"

\* C9: no failure inside a strategy makes extract_metadata raise; after a
\* strategy-local failure the orchestrator is at a later strategy.
C9_FailuresAbsorbed ==
    /\ pc # "raised"
    /\ (Running /\ trace # <<>> /\ pc # "crossref") =>
           StrategyOrd(Last(trace)) < StepOrd(pc)

\* the direct-PDF utility raised or failed, the DOI lookup timed out, the
\* arXiv lookup failed, and the call stands at the PDF-properties strategy
C9_Witness ==
    /\ pc = "pdf_metadata"
    /\ trace = <<"pdf2bib", "crossref", "arxiv", "pubmed">>
    /\ \E i \in DOMAIN log : log[i].out = "timeout"
    /\ \E i \in DOMAIN log : log[i].ev = "arxiv_request"

Retryable == {"timeout", "connection_error", "other_status"}

\* C10: the DOI lookup issues at most max_retries requests; when every
\* attempt ended in a transport failure or a status that is neither success
\* nor not-found, the lookup ends after max_retries requests without a
\* record and the orchestrator goes on to the arXiv strategy.
C10_BoundedRetries ==
    /\ [](Len(Requests(log)) <= self_max_retries)
    /\ [][ (/\ pc = "crossref"
            /\ pc' # "crossref"
            /\ \A i \in DOMAIN Requests(log') : Requests(log')[i].out \in Retryable)
           => (/\ pc' = "arxiv"
               /\ ~HasRecord'
               /\ Len(Requests(log')) = self_max_retries) ]_vars

C10_Witness ==
    /\ pc = "arxiv"
    /\ self_max_retries = 3
    /\ Len(Requests(log)) = 3
    /\ Requests(log)[1].out = "timeout"
    /\ Requests(log)[2].out = "other_status"
    /\ Requests(log)[3].out = "connection_error"

\* the events of the DOI lookup
LookupEvents(l) == SelectSeq(l, LAMBDA e : e.ev \in {"request", "sleep"})

\* C11: a not-found answer of the DOI registry ends the lookup: it is the
\* lookup's last event (no request and no sleep follows it), the lookup gives
\* no record, and the call goes on with the later strategies only.
C11_NotFoundIsDefinitive ==
    \A i \in DOMAIN LookupEvents(log) :
        LookupEvents(log)[i].out = "not_found" =>
            /\ i = Len(LookupEvents(log))
            /\ pc \notin {"pdf2bib", "doi", "crossref"}
            /\ HasRecord => metadata.extraction_method \notin {"pdf2bib", "crossref"}

\* a timeout and its backoff sleep, then the not-found answer on the second
\* of three attempts; the call has gone on to the PDF-properties strategy
C11_Witness ==
    /\ self_max_retries = 3
    /\ Len(LookupEvents(log)) = 3
    /\ LookupEvents(log)[1].out = "timeout"
    /\ LookupEvents(log)[2].ev = "sleep"
    /\ LookupEvents(log)[3].out = "not_found"
    /\ pc = "pdf_metadata"

(***************************************************************************)
(* More claims on the key generator                                        *)
(***************************************************************************)
\* the base key of the last call
CallBase == BaseKey(call.authors, call.year)

\* C12: with the base key and all 26 keys base+'a' .. base+'z' in
\* existing_keys, the returned key is the base, an underscore and the number
\* of keys in existing_keys (27 when these are all the keys), not a key with
\* a letter suffix.
C12_CountFallback ==
    (call.made /\ LetterRun(CallBase, 26) \subseteq call.snapshot) =>
        /\ call.key = CallBase \o <<"_">> \o IntToStr(Cardinality(call.snapshot))
        /\ (Cardinality(call.snapshot) = 27 =>
               call.key = CallBase \o <<"_", "2", "7">>)

C12_Witness ==
    /\ call.made
    /\ call.snapshot = LetterRun(CallBase, 26)
    /\ call.key = Str_Smith \o <<"2", "0", "2", "4", "_", "2", "7">>

\* the letters L, as indexes into a..z, for which base+L is not in keys
FreeLetters(base, keys) == { i \in 1..26 : base \o <<Lower[i]>> \notin keys }

\* C13: with the base key in existing_keys, the returned key is base+L for
\* the first letter L of a..z with base+L not in existing_keys; the
\* count-based key is returned only when no letter is free.
C13_FirstFreeLetter ==
    (call.made /\ CallBase \in call.snapshot) =>
        IF FreeLetters(CallBase, call.snapshot) # {}
        THEN call.key = CallBase \o <<Lower[CHOOSE i \in FreeLetters(CallBase, call.snapshot) :
                                            \A j \in FreeLetters(CallBase, call.snapshot) : i <= j]>>
        ELSE call.key = CallBase \o <<"_">> \o IntToStr(Cardinality(call.snapshot))

\* the surname as the contract words it: the part before the first comma, or
\* else the last run of non-whitespace characters
CommaAt(a) == CHOOSE k \in 1..Len(a) : a[k] = "," /\ \A m \in 1..(k - 1) : a[m] # ","
HasToken(a) == \E k \in 1..Len(a) : a[k] \notin Whitespace
TokenEnd(a) == CHOOSE j \in 1..Len(a) :
                   a[j] \notin Whitespace /\ \A m \in (j + 1)..Len(a) : a[m] \in Whitespace
TokenStart(a) == CHOOSE i \in 1..TokenEnd(a) :
                     /\ \A m \in i..TokenEnd(a) : a[m] \notin Whitespace
                     /\ i > 1 => a[i - 1] \in Whitespace
ContractSurname(a) ==
    IF "," \in Range(a) THEN SubSeq(a, 1, CommaAt(a) - 1)
    ELSE SubSeq(a, TokenStart(a), TokenEnd(a))
Letters(s) == SelectSeq(s, LAMBDA c : c \in Range(Lower) \cup Range(Upper))
ContractBase(authors, year) ==
    IF authors = <<>> THEN <<"U", "n", "k", "n", "o", "w", "n">> \o IntToStr(year)
    ELSE Letters(ContractSurname(authors[1])) \o IntToStr(year)

C14_WitnessNoAuthors ==
    /\ call.made
    /\ call.authors = <<>>
    /\ call.key = <<"U", "n", "k", "n", "o", "w", "n", "2", "0", "2", "4">>

\* given names and surnames, each one alphabetic token
NameTokens == {Str_John, Str_Smith, Str_Jones}
SurnameFirst(L, F) == <<L \o <<",", " ">> \o F>>
GivenFirst(F, L) == <<F \o <<" ">> \o L>>

\* C15: for every given name F, surname L, year and existing_keys, the call
\* with first author "L, F" returns the same key as with first author "F L".
C15_NameOrderIrrelevant ==
    /\ \A F \in NameTokens, L \in NameTokens, y \in YearInputs :
           generate_bibtex_key(SurnameFirst(L, F), y, existing_keys)
               = generate_bibtex_key(GivenFirst(F, L), y, existing_keys)
    /\ call.made =>
           \A F \in NameTokens, L \in NameTokens :
               /\ call.authors = SurnameFirst(L, F) =>
                      call.key = generate_bibtex_key(GivenFirst(F, L), call.year, call.snapshot)
               /\ call.authors = GivenFirst(F, L) =>
                      call.key = generate_bibtex_key(SurnameFirst(L, F), call.year, call.snapshot)

C15_Witness ==
    /\ call.made
    /\ call.authors = SurnameFirst(Str_Smith, Str_John)
    /\ LetterRun(BaseSmith, 2) \subseteq call.snapshot
    /\ call.key = BaseSmith \o <<"c">>
    /\ call.key = generate_bibtex_key(GivenFirst(Str_John, Str_Smith), call.year, call.snapshot)

C17_YearFourDigits ==
    (pc = "done" /\ HasRecord) => metadata.year \in 1000..9999

\* the strategies that build records, by the step that runs them
ProducingSteps == {"pdf2bib", "crossref", "arxiv", "pdf_metadata", "parsed"}

\* C18: a record carries one extraction_method, the one of the strategy that
\* produced it (PDF2BIB from the direct-PDF strategy, CROSSREF from the DOI
\* lookup, ARXIV from the arXiv lookup, PDF_METADATA from the PDF properties,
\* PARSED from the text heuristic), and it never changes afterwards.
C18_MethodNamesProducer ==
    [][ /\ (~HasRecord /\ HasRecord') =>
              /\ pc \in ProducingSteps
              /\ metadata'.extraction_method = pc
        /\ HasRecord =>
              /\ HasRecord'
              /\ metadata'.extraction_method = metadata.extraction_method ]_vars

C18_Witness ==
    /\ pc = "idle"
    /\ returned # <<>>
    /\ HasRecord
    /\ metadata.extraction_method = "pdf_metadata"
    /\ Last(trace) = "pdf_metadata"

\* a PubMed ID stands in the text handed to the call
PubmedIdFound ==
    /\ Truthy(first_pages_text)
    /\ extract_pubmed_id_from_text(first_pages_text) # None

\* C19: the PubMed strategy always reports failure: when a PubMed ID is found
\* in the text and the earlier strategies failed, the call goes on to the
\* PDF-properties strategy without a record, and no record ever has
\* extraction_method PUBMED.
C19_PubmedNeverAnswers ==
    /\ [](HasRecord => metadata.extraction_method # "pubmed")
    /\ [][ (pc = "pubmed" /\ PubmedIdFound) =>
               /\ trace' = Append(trace, "pubmed")
               /\ pc' = "pdf_metadata"
               /\ ~HasRecord' ]_vars

C19_Witness ==
    /\ PubmedIdFound
    /\ trace # <<>> /\ Last(trace) = "pubmed"
    /\ pc = "pdf_metadata"
    /\ ~HasRecord

\* C20: when first_pages_text is absent or empty the DOI, arXiv and PubMed
\* strategies are skipped: the text is not searched for an identifier, none
\* of their lookups is made, and the call goes from the direct-PDF strategy
\* straight to the PDF-properties strategy.
C20_NoTextSkipsIdentifiers ==
    ~Truthy(first_pages_text) =>
        /\ log = <<>>
        /\ crossref_doi = None
        /\ pc # "crossref"
        /\ \A i \in DOMAIN trace : trace[i] \in {"pdf2bib", "pdf_metadata", "parsed"}
        /\ \A i \in DOMAIN trace :
               trace[i] = "pdf_metadata" => (i = 1 \/ (i = 2 /\ trace[1] = "pdf2bib"))

C20_Witness ==
    /\ first_pages_text = None
    /\ pc = "parsed"
    /\ trace = <<"pdf2bib", "pdf_metadata">>
    /\ log = <<>>

C20_WitnessEmpty ==
    /\ first_pages_text = <<>>
    /\ pc = "done"
    /\ trace = <<"pdf2bib", "pdf_metadata">>
    /\ log = <<>>

(***************************************************************************)
(* Claims on the identifier search                                         *)
(***************************************************************************)
\* a DOI begins at index i of t: "10.", four or more digits, a slash and a
\* character that is not whitespace
DoiStartsAt(t, i) ==
    /\ i + 2 <= Len(t)
    /\ <<t[i], t[i + 1], t[i + 2]>> = <<"1", "0", ".">>
    /\ \E d \in (i + 6)..(Len(t) - 2) :
          /\ \A k \in (i + 3)..d : t[k] \in Range(DigitChars)
          /\ t[d + 1] = "/"
          /\ t[d + 2] \notin Whitespace

\* the first DOI of t: from its first character to the end of the run of
\* non-whitespace characters
FirstDoi(t) ==
    LET i == CHOOSE k \in 1..Len(t) : DoiStartsAt(t, k) /\ \A m \in 1..(k - 1) : ~DoiStartsAt(t, m)
        e == CHOOSE k \in i..Len(t) :
                 /\ \A m \in i..k : t[m] \notin Whitespace
                 /\ k < Len(t) => t[k + 1] \in Whitespace
    IN SubSeq(t, i, e)

SentencePunct == {".", ",", ";", ":"}

\* s without its trailing sentence punctuation
Trimmed(s) ==
    LET n == CHOOSE k \in 0..Len(s) :
                 /\ \A m \in (k + 1)..Len(s) : s[m] \in SentencePunct
                 /\ k > 0 => s[k] \notin SentencePunct
    IN SubSeq(s, 1, n)

\* C21: extract_doi_from_text returns not-found, or the first DOI of the
\* text without a doi:/DOI: prefix and without its trailing '.', ',', ';',
\* ':' characters: the result starts with "10." and does not end in one of
\* the four.
C21_DoiCleaned ==
    pc = "searched" =>
        IF \E i \in 1..Len(first_pages_text) : DoiStartsAt(first_pages_text, i)
        THEN /\ crossref_doi = Trimmed(FirstDoi(first_pages_text))
             /\ SubSeq(crossref_doi, 1, 3) = <<"1", "0", ".">>
             /\ crossref_doi[Len(crossref_doi)] \notin SentencePunct
        ELSE crossref_doi = None

\* "See doi: 10.1234/abcd.5678." gives "10.1234/abcd.5678"
C21_Witness ==
    /\ pc = "searched"
    /\ first_pages_text = <<"S","e","e"," ","d","o","i",":"," ","1","0",".","1","2","3","4","/","a","b","c","d",".","5","6","7","8",".">>
    /\ crossref_doi = <<"1","0",".","1","2","3","4","/","a","b","c","d",".","5","6","7","8">>

C21_WitnessTwoTrailing ==
    /\ pc = "searched"
    /\ first_pages_text = <<"D","O","I",":"," ","1","0",".","1","2","3","4","5","/","A",";",":">>
    /\ crossref_doi = <<"1","0",".","1","2","3","4","5","/","A">>

(***************************************************************************)
(* Claims on the lookups                                                   *)
(***************************************************************************)
\* C22: in the DOI lookup every retry is preceded by a backoff sleep: no two
\* requests follow each other without a sleep between them.
C22_SleepBeforeRetry ==
    \A i \in 1..(Len(LookupEvents(log)) - 1) :
        LookupEvents(log)[i].ev = "request" => LookupEvents(log)[i + 1].ev = "sleep"

TransportFailures == {"timeout", "connection_error"}

\* the number of requests among the first n events of l
RequestsBefore(l, n) == Len(Requests(SubSeq(l, 1, n)))

\* the time slept in the events of l
TotalSleep(l) ==
    LET sum[k \in 0..Len(l)] ==
            IF k = 0 THEN 0
            ELSE sum[k - 1] + (IF l[k].ev = "sleep" THEN l[k].d ELSE 0)
    IN sum[Len(l)]

\* C23: after a transport failure on attempt i (from 0) the lookup sleeps
\* retry_delay * 2^i before attempt i+1; it does not sleep after the final
\* attempt; the sleeps of one resolution add up to at most
\* retry_delay * (2^(max_retries - 1) - 1).
C23_ExponentialBackoff ==
    /\ \A j \in DOMAIN LookupEvents(log) :
           LookupEvents(log)[j].ev = "sleep" =>
               /\ j > 1
               /\ LookupEvents(log)[j - 1].out \in TransportFailures
               /\ RequestsBefore(LookupEvents(log), j) < self_max_retries
               /\ LookupEvents(log)[j].d
                      = self_retry_delay * 2 ^ (RequestsBefore(LookupEvents(log), j) - 1)
    /\ \A j \in DOMAIN LookupEvents(log) :
           (/\ LookupEvents(log)[j].out \in TransportFailures
            /\ RequestsBefore(LookupEvents(log), j) < self_max_retries
            /\ j < Len(LookupEvents(log))) =>
               LookupEvents(log)[j + 1].ev = "sleep"
    /\ TotalSleep(log) <= IF self_max_retries = 0 THEN 0
                          ELSE self_retry_delay * (2 ^ (self_max_retries - 1) - 1)

\* three transport failures with base delay 2: sleeps of 2 and 4, none after
\* the third attempt
C23_Witness ==
    /\ self_max_retries = 3 /\ self_retry_delay = 2
    /\ pc = "arxiv"
    /\ Len(LookupEvents(log)) = 5
    /\ LookupEvents(log)[2].d = 2
    /\ LookupEvents(log)[4].d = 4
    /\ LookupEvents(log)[5].out \in TransportFailures
    /\ TotalSleep(log) = 6

\* C24: the DOI lookup issues a further request only after a transport
\* failure or a status that is neither success nor not-found: a success
\* answer, also one whose text cannot be normalized, ends the lookup.
C24_SuccessAnswerEndsLookup ==
    \A i \in DOMAIN Requests(log) :
        i < Len(Requests(log)) => Requests(log)[i].out \in Retryable

ArxivRequests(l) == SelectSeq(l, LAMBDA e : e.ev = "arxiv_request")

\* C25: the arXiv lookup issues one request per resolution and never sleeps
\* or retries; after a transport error, a non-success status, an empty feed
\* or an error while reading the first entry's title, authors, publication
\* date or abstract it has no record and the call advances to the PubMed
\* strategy.
C25_ArxivSingleAttempt ==
    /\ [](Len(ArxivRequests(log)) <= 1)
    /\ [][ (pc = "arxiv" /\ "arxiv" \in Range(trace')) =>
               /\ Len(ArxivRequests(log')) = 1
               /\ Last(log').ev = "arxiv_request"
               /\ LookupEvents(log') = LookupEvents(log)
               /\ Last(log').out # "entry" => (~HasRecord' /\ pc' = "pubmed") ]_vars

\* an entry without its abstract: no record, the call is at the PubMed step
C25_Witness ==
    /\ pc = "pubmed"
    /\ ~HasRecord
    /\ log # <<>>
    /\ Last(log).ev = "arxiv_request"
    /\ Last(log).out = "entry_unreadable"

C25_WitnessTransport ==
    /\ pc = "pubmed"
    /\ log # <<>>
    /\ Last(log).ev = "arxiv_request"
    /\ Last(log).out = "request_error"

(***************************************************************************)
(* Claims on the strategies                                                *)
(***************************************************************************)
NonEmptyLines(text) == SelectSeq(SplitLines(text), LAMBDA l : l # <<>>)

\* C26: the title of the text heuristic's record is the first non-empty line
\* of the first-page text, and the filename stem of the PDF when the text is
\* empty or absent.
C26_TitleFromTextOrStem ==
    (pc = "done" /\ HasRecord /\ metadata.extraction_method = "parsed") =>
        IF ~Truthy(first_pages_text) THEN metadata.title = Str_stem
        ELSE NonEmptyLines(first_pages_text) # <<>> =>
                 metadata.title = NonEmptyLines(first_pages_text)[1]

\* the entry of the text handed to the normalizer, as a reader of it sees it
GivenEntry == parse_bibtex(first_pages_text)

\* C27: the citation normalizer returns the year as an integer, 2024 both when
\* the entry has no year field and when the field does not parse as an
\* integer; a year that does not parse does not make normalization fail.
C27_YearSentinel ==
    (pc = "normalized" /\ GivenEntry.ok) =>
        /\ metadata.ok
        /\ metadata.year \in Int
        /\ (~HasField(GivenEntry.fields, Str_year) => metadata.year = 2024)
        /\ (/\ HasField(GivenEntry.fields, Str_year)
            /\ ~ParseInt(FieldGet(GivenEntry.fields, Str_year, <<>>)).ok) =>
               metadata.year = 2024

\* the document whose properties the strategy read
DocRead == Last(log).doc

\* the characters of a creation date after its two-character prefix, four
\* at most
YearChars(date) == SubSeq(date, 3, IF Len(date) < 6 THEN Len(date) ELSE 6)

\* they are digits and make a year
IsYear(cs) ==
    /\ cs # <<>>
    /\ \A k \in DOMAIN cs : IsDigit(cs[k])
    /\ \E k \in DOMAIN cs : cs[k] # "0"

\* C28: the PDF-properties strategy gives a record exactly when the file
\* opens and its properties hold a non-empty title, a non-empty author and a
\* creation date whose characters after the two-character prefix parse to a
\* year; otherwise it gives no record and the text heuristic is next.
C28_PropertiesAllOrNothing ==
    (log # <<>> /\ Last(log).ev = "pdf_properties" /\ Last(trace) = "pdf_metadata") =>
        IF /\ DocRead.opens /\ DocRead.has_metadata
           /\ DocRead.title # <<>>
           /\ DocRead.author # <<>>
           /\ IsYear(YearChars(DocRead.creationDate))
        THEN /\ pc = "done" /\ HasRecord
             /\ metadata.extraction_method = "pdf_metadata"
             /\ metadata.title = DocRead.title
             /\ metadata.authors = <<DocRead.author>>
        ELSE pc = "parsed" /\ ~HasRecord

C28_Witness ==
    /\ log # <<>> /\ Last(log).ev = "pdf_properties"
    /\ DocRead.title # <<>> /\ DocRead.author # <<>>
    /\ pc = "done" /\ HasRecord
    /\ metadata.year = 2019

\* title and author without a creation date: the text heuristic has run
C28_WitnessNoDate ==
    /\ log # <<>> /\ Last(log).ev = "pdf_properties"
    /\ DocRead.title # <<>> /\ DocRead.author # <<>> /\ DocRead.creationDate = <<>>
    /\ pc = "done"
    /\ Last(trace) = "parsed"

\* what the utility did in the call of the direct-PDF strategy
UtilRun == Last(log).util

\* C29: the direct-PDF strategy gives a record only when the utility's
\* payload has an identifier and a structured citation and the citation
\* normalizes; a payload without the identifier or the citation, a payload of
\* unexpected shape and an exception of the utility give no record, raise
\* nothing, and leave the call at the DOI strategy.
C29_Pdf2bibFailsSoftly ==
    (log # <<>> /\ Last(log).ev = "pdf2bib") =>
        /\ pc # "raised"
        /\ HasRecord =>
               /\ ~UtilRun.raises
               /\ UtilRun.shape \in {"direct", "bypath"}
               /\ UtilRun.identifier \notin {None, <<>>}
               /\ UtilRun.bibtex \notin {None, <<>>}
               /\ _parse_bibtex_entry(UtilRun.bibtex).ok
               /\ metadata.extraction_method = "pdf2bib"
        /\ (\/ UtilRun.raises
            \/ UtilRun.shape \notin {"direct", "bypath"}
            \/ UtilRun.identifier \in {None, <<>>}
            \/ UtilRun.bibtex \in {None, <<>>}) => (~HasRecord /\ pc = "doi")

\* the utility raised: no record, the call is at the DOI strategy
C29_Witness ==
    /\ log # <<>> /\ Last(log).ev = "pdf2bib"
    /\ UtilRun.raises
    /\ pc = "doi"
    /\ ~HasRecord

C29_WitnessRecord ==
    /\ log # <<>> /\ Last(log).ev = "pdf2bib"
    /\ UtilRun.shape = "bypath"
    /\ pc = "done" /\ HasRecord

\* the fields of the entry a record was built from (the record keeps the
\* entry's text, with the key replaced)
EntryFields == parse_bibtex(metadata.bibtex_entry).fields

\* the record's value v of an optional field: the entry's value, null when
\* the entry lacks the field
CarriesField(v, name) ==
    IF HasField(EntryFields, name)
    THEN v # None /\ v = FieldGet(EntryFields, name, None)
    ELSE v = None

\* C30: a missing optional field (journal, volume, pages, publisher, doi)
\* does not make normalization fail, and a record built from the normalized
\* entry carries null for exactly the optional fields that the entry lacks;
\* the doi of a DOI-lookup record is the looked-up identifier.
C30_MissingOptionalFieldsNull ==
    (HasRecord /\ metadata.extraction_method \in {"pdf2bib", "crossref"}) =>
        /\ parse_bibtex(metadata.bibtex_entry).ok
        /\ CarriesField(metadata.journal, Str_journal)
        /\ CarriesField(metadata.volume, Str_volume)
        /\ CarriesField(metadata.pages, Str_pages)
        /\ CarriesField(metadata.publisher, Str_publisher)
        /\ HasField(EntryFields, Str_doi) => metadata.doi # None
        /\ metadata.extraction_method = "crossref" => metadata.doi = crossref_doi

\* an entry with a publisher and no journal, volume or pages
C30_Witness ==
    /\ pc = "done" /\ HasRecord
    /\ metadata.extraction_method = "crossref"
    /\ metadata.publisher = <<"P">>
    /\ metadata.journal = None /\ metadata.volume = None /\ metadata.pages = None
    /\ ~HasField(EntryFields, Str_journal)

(***************************************************************************)
(* Further claims on the key generator                                     *)
(***************************************************************************)
\* C31: generate_bibtex_key terminates for every authors list, year and
\* existing_keys set, and tests at most 26 candidate keys for membership
\* before it returns.
C31_AtMost26Tests ==
    call.made =>
        /\ call.tests \in 1..26
        /\ call.key # <<>>

\* the base and the letters a..y are taken: 26 tests, then the fallback
C31_Witness ==
    /\ call.made
    /\ call.tests = 26
    /\ LetterRun(CallBase, 25) \subseteq call.snapshot
    /\ call.key = CallBase \o <<"_">> \o IntToStr(Cardinality(call.snapshot))

(***************************************************************************)
(* Further claims on the orchestrator                                      *)
(***************************************************************************)
\* C32: every record of the text heuristic has a year from 1900 to 2099,
\* whatever the text.
C32_HeuristicYearRange ==
    (HasRecord /\ metadata.extraction_method = "parsed") =>
        metadata.year \in 1900..2099

\* "arXiv:2101.12345 (2021)": the token 2101 is passed over, 2021 is taken
C32_Witness ==
    /\ pc = "done" /\ HasRecord
    /\ metadata.extraction_method = "parsed"
    /\ first_pages_text = Text_arxiv
    /\ metadata.year = 2021

\* C33: a call of extract_metadata leaves the caller's set as it was,
\* whichever strategies ran, failed or succeeded; the set changes only in the
\* caller's step after the return, and then by exactly the returned key.
C33_ExtractLeavesKeysAlone ==
    [][/\ pc # "done" => existing_keys' = existing_keys
       /\ existing_keys' # existing_keys =>
              /\ pc' = "idle"
              /\ existing_keys' = existing_keys \cup {metadata.bibtex_key}]_vars

\* a strategy has generated a new key against a non-empty set and the call is
\* about to return: the set is still the one the generator was given
C33_Witness ==
    /\ pc = "done" /\ HasRecord
    /\ call.made /\ call.key = metadata.bibtex_key
    /\ call.snapshot # {} /\ existing_keys = call.snapshot
    /\ metadata.bibtex_key \notin existing_keys

\* the arXiv strategy failed after it had generated a key, and a later
\* strategy is running: the set is still the one the generator was given
C33_WitnessAfterFailure ==
    /\ pc \in {"pubmed", "pdf_metadata", "parsed"}
    /\ call.made /\ call.key # None
    /\ call.snapshot # {} /\ existing_keys = call.snapshot

\* C34: in one call of extract_metadata the key generator runs once, for the
\* strategy whose record is returned: when a record is returned, the one
\* invocation of the generator gave that record's key and none came before
\* it; and as long as no strategy has succeeded no key has been generated.
C34_OneKeyPerCall ==
    /\ (pc = "done" /\ HasRecord) =>
           /\ call.made /\ ~call.prev.made
           /\ call.key = metadata.bibtex_key
    /\ call.made => \/ pc = "done"
                    \/ pc = "idle" /\ returned # <<>>

\* a record is returned by the text heuristic after the arXiv strategy had
\* generated a key of its own and failed: two invocations in one call
C34_TwoInvocations ==
    /\ pc = "done" /\ HasRecord
    /\ metadata.extraction_method = "parsed"
    /\ call.made /\ call.prev.made
    /\ call.prev.authors = <<Str_Jones, None>>
    /\ call.prev.key # None

(***************************************************************************)
(* Claims on the batch indexer                                             *)
(***************************************************************************)
\* C35: in the batch indexer every document's key is in the shared set as soon
\* as the document is resolved, whether or not its later steps succeed, and
\* a document that is stored never gets the key of the document stored just
\* before it in the same run.
C35_BatchKeysAddedAndDistinct ==
    [][/\ call'.made => call'.key \in existing_keys'
       /\ (call.made /\ call.stored /\ call'.stored) => call'.key # call.key]_vars

\* the first part alone: the key of a document whose embedding or storing
\* failed is in the shared set all the same
C35_KeyAddedAlsoOnFailure ==
    (call.made /\ ~call.stored) => call.key \in existing_keys

\* two documents stored one after the other under one key
C35_SameKeyStoredTwice ==
    /\ call.made /\ call.stored
    /\ call.prev.made /\ call.prev.key = call.key
    /\ Len(returned) = 2 /\ returned[1] = returned[2]

(***************************************************************************)
(* Claims on the servers                                                   *)
(***************************************************************************)
\* C36: an add-paper request reads the store's keys, resolves the metadata
\* and inserts the paper without another request coming in between (the keys
\* it read are still the store's keys until it has inserted), and so the
\* store never holds two papers under one key.
C36_AddPaperAtomicAndDistinct ==
    /\ \A r \in AddRequests :
          handlers[r].pc \in {"resolve", "embed", "insert"} =>
              handlers[r].existing_keys = get_all_bibtex_keys(store)
    /\ \A k \in DOMAIN store : store[k] = 1

\* the first part alone: no other request's step falls between a request's
\* reading of the keys and its insertion
C36_NoSuspensionPoint ==
    [][\A r \in AddRequests :
          handlers[r].pc \in {"resolve", "embed", "insert"} =>
              /\ \A q \in AddRequests \ {r} : handlers'[q] = handlers[q]
              /\ handlers[r].existing_keys = get_all_bibtex_keys(store)]_vars

\* both requests have returned and their papers lie under one key
C36_TwoPapersOneKey ==
    /\ \A r \in AddRequests : handlers[r].pc = "returned" /\ handlers[r].key # <<>>
    /\ handlers["r1"].key = handlers["r2"].key
    /\ store[handlers["r1"].key] >= 2

(***************************************************************************)
(* Last claim on the key generator                                         *)
(***************************************************************************)
\* C37: every key the generator returns starts with a letter, i.e. a
\* non-empty alphabetic part stands before the digits of the year,
\* whatever the authors are.
C37_KeyStartsWithSurname ==
    call.made =>
        /\ call.key # <<>>
        /\ IsAlpha(call.key[1])
        /\ Len(call.key) > Len(IntToStr(call.year))

\* the first author string is empty: the key starts with "Unknown"
C37_EmptyAuthorIsUnknown ==
    (call.made /\ call.authors = << <<>> >>) =>
        SubSeq(call.key, 1, 7) = <<"U", "n", "k", "n", "o", "w", "n">>

\* the first author is ", John" and the key is the bare year
C37_KeyIsBareYear ==
    /\ call.made
    /\ call.authors = << <<",", " ">> \o Str_John >>
    /\ call.key = IntToStr(2024)

====
